---- MODULE Spec2Model ----
(***************************************************************************)
(* Model of the grid trading bot: TradingBot (src/bot.py) driving a        *)
(* GridTradingStrategy (src/strategy.py), an exchange (src/exchange.py)    *)
(* and an AI advisor (src/ai_advisor.py).                                  *)
(*                                                                         *)
(* Prices and amounts are integers: a price is a positive number of price  *)
(* units, a percentage test  x / y * 100 >= t  is decided as               *)
(* x * 100 >= t * y  for y > 0 (floating point rounding is not modelled),  *)
(* and a division by a zero reference price is the ZeroDivisionError that  *)
(* Python raises.  Python's None is the value None below; the float 0.0 is *)
(* the integer 0.                                                          *)
(***************************************************************************)
EXTENDS Integers, Sequences, FiniteSets, TLC

VARIABLES
    pc,            \* where the process is: "off", "ready", "idle", "exec", "returned", "raised"
    running,       \* TradingBot.running
    position,      \* TradingBot.position
    strategy,      \* the GridTradingStrategy object's fields
    price_history, \* TradingBot.price_history: sequence of [t, price]
    file,          \* contents of bot_state.json, or NoFile
    iteration,     \* the local counter of run()
    now,           \* the clock, in seconds since the process started
    require_ai_confirmation, \* TradingBot.require_ai_confirmation
    ai_enabled,    \* AIAdvisor.enabled
    runs,          \* processes started so far
    boot,          \* what the last construction saw and did
    tick,          \* what the current (or last) loop iteration saw and did
    summary,       \* closing summaries sent to the advisor in this process
    elapsed,       \* loop iterations of all processes so far
    bots,          \* MultiBotManager.bots: the bot of each symbol
    files,         \* the state files of the multi-symbol process, by name
    manager,       \* bot_api.manager, the ConnectionManager
    api,           \* bot_api's globals and the bot threads it has started
    connections    \* the ConnectionManager's connections and who is using them

bot_vars == << pc, running, position, strategy, price_history, file, iteration, now,
               require_ai_confirmation, ai_enabled, runs, boot, tick, summary, elapsed >>

vars == << pc, running, position, strategy, price_history, file, iteration, now,
           require_ai_confirmation, ai_enabled, runs, boot, tick, summary, elapsed,
           bots, files, manager, api, connections >>

----------------------------------------------------------------------------
(* Values *)

None == -1

\* The prices the exchange can report: the test scripts' 100000 scaled to 100.
Prices == {96, 100, 102}

\* Bounds of the model.
MaxTicks == 3
MaxRuns == 2
CheckInterval == 100

\* Bound of the strategy script: the trades it records.
MaxTrades == 4

\* The prices and settings the strategy script uses: the test scripts' 100000
\* scaled to 100, thresholds in whole percents.
ScriptPrices == {97, 98, 100, 102}
BuyThresholds == {1, 2}
SellThresholds == {2, 10}
TrailingStopPercentages == {2}

\* Program constants.
BUY_THRESHOLD == 1
SELL_THRESHOLD == 1
TRADE_AMOUNT == 2
stop_loss_percentage == 3
min_position_size == 1
max_position_size == 3
position_size_step == 1
streak_length == 3
price_alert_threshold == 2
price_tracking_window == 300
dust_threshold == 1
status_every == 10

\* Base-asset balances, in units of 0.0001: none, exactly the dust threshold, above it.
BtcBalances == {0, dust_threshold, dust_threshold + 1}

\* Quote balances, in units of what one position-size step costs.
UsdtBalances == {0, max_position_size}

\* exchange.get_balance() returned None.
NoBalance == [failed |-> TRUE]

\* What exchange.get_balance() can return at construction, where the base
\* balance is read, and after a sell, where the quote balance is.
BootBalances == {NoBalance} \cup [BTC : BtcBalances, USDT : {0}]
TradeBalances == {NoBalance} \cup [BTC : {0}, USDT : UsdtBalances]

\* What it can return where only its failure matters (print_status, stop).
BalanceQueries == {NoBalance, [BTC |-> 0, USDT |-> 0]}

Min(a, b) == IF a <= b THEN a ELSE b

----------------------------------------------------------------------------
(* The advisory texts and the confirmation parser *)

positive_keywords ==
    << <<"y","e","s">>,
       <<"p","r","o","c","e","e","d">>,
       <<"g","o"," ","a","h","e","a","d">>,
       <<"g","o","o","d">>,
       <<"t","a","k","e">>,
       <<"e","x","e","c","u","t","e">>,
       <<"a","p","p","r","o","v","e">>,
       <<"f","a","v","o","r","a","b","l","e">>,
       <<"r","e","c","o","m","m","e","n","d">>,
       <<"l","o","o","k","s"," ","g","o","o","d">>,
       <<"a","g","r","e","e">>,
       <<"p","o","s","i","t","i","v","e">>,
       <<"b","u","y"," ","i","t">>,
       <<"s","e","l","l"," ","i","t">>,
       <<"d","o"," ","i","t">>,
       <<"t","a","k","e"," ","i","t">> >>

negative_keywords ==
    << <<"n","o">>,
       <<"w","a","i","t">>,
       <<"a","v","o","i","d">>,
       <<"d","o","n","'","t">>,
       <<"d","o"," ","n","o","t">>,
       <<"h","o","l","d"," ","o","f","f">>,
       <<"p","a","u","s","e">>,
       <<"s","k","i","p">>,
       <<"r","i","s","k","y">>,
       <<"c","a","u","t","i","o","n">>,
       <<"r","e","c","o","n","s","i","d","e","r">>,
       <<"u","n","f","a","v","o","r","a","b","l","e">>,
       <<"a","g","a","i","n","s","t">>,
       <<"d","e","c","l","i","n","e">>,
       <<"r","e","j","e","c","t">> >>

t_empty == <<>>
t_yes == <<"Y","e","s",","," ","t","a","k","e"," ","i","t">>
t_no == <<"N","o",","," ","w","a","i","t">>
t_tie == <<"P","r","o","c","e","e","d"," ","w","i","t","h"," ","c","a","u","t","i","o","n">>
t_know == <<"I"," ","k","n","o","w",","," ","g","o"," ","a","h","e","a","d">>
t_not == <<"N","o","t"," ","i","d","e","a","l"," ","b","u","t"," ","y","e","s",","," ","t","a","k","e"," ","i","t">>
t_offline == <<"A","I"," ","A","s","s","i","s","t","a","n","t"," ","i","s"," ","o","f","f","l","i","n","e">>

\* Python's None where a text is expected.
NoText == << "<None>" >>

\* The answers the confirmation parser is tried on.
ConfirmationTexts == { NoText, t_empty, t_yes, t_no, t_tie, t_know, t_not, t_offline }

\* What the advisory service can answer when it is reachable; NoText is a failed request.
AdviceTexts == { NoText, t_empty, t_yes, t_tie }

\* str.lower() on one character.
LowerChar(c) ==
    CASE c = "A" -> "a"
        [] c = "B" -> "b"
        [] c = "C" -> "c"
        [] c = "D" -> "d"
        [] c = "E" -> "e"
        [] c = "F" -> "f"
        [] c = "G" -> "g"
        [] c = "H" -> "h"
        [] c = "I" -> "i"
        [] c = "J" -> "j"
        [] c = "K" -> "k"
        [] c = "L" -> "l"
        [] c = "M" -> "m"
        [] c = "N" -> "n"
        [] c = "O" -> "o"
        [] c = "P" -> "p"
        [] c = "Q" -> "q"
        [] c = "R" -> "r"
        [] c = "S" -> "s"
        [] c = "T" -> "t"
        [] c = "U" -> "u"
        [] c = "V" -> "v"
        [] c = "W" -> "w"
        [] c = "X" -> "x"
        [] c = "Y" -> "y"
        [] c = "Z" -> "z"
        [] OTHER -> c

lower(text) == [i \in 1..Len(text) |-> LowerChar(text[i])]

\* Python's  keyword in text  on strings: substring containment.
Contains(text, keyword) ==
    \E i \in 0..(Len(text) - Len(keyword)) :
        \A j \in 1..Len(keyword) : text[i + j] = keyword[j]

CountKeywords(keywords, text) ==
    Cardinality({k \in 1..Len(keywords) : Contains(text, keywords[k])})

\* _parse_ai_confirmation approving a tie of positive and negative keywords.
parse_ai_confirmation_approving_ties(ai_response) ==
    IF ai_response = NoText \/ ai_response = <<>>
    THEN FALSE
    ELSE LET response_lower == lower(ai_response)
             positive_count == CountKeywords(positive_keywords, response_lower)
             negative_count == CountKeywords(negative_keywords, response_lower)
         IN  positive_count >= negative_count /\ positive_count > 0

parse_ai_confirmation(ai_response) ==
    IF ai_response = NoText \/ ai_response = <<>>
    THEN FALSE
    ELSE LET response_lower == lower(ai_response)
             positive_count == CountKeywords(positive_keywords, response_lower)
             negative_count == CountKeywords(negative_keywords, response_lower)
         IN  positive_count > negative_count /\ positive_count > 0

\* _send_message asking the service without looking at the health probe's result.
send_message_ignoring_health(enabled, answer) == answer

\* AIAdvisor._send_message: the offline sentinel when disabled, else the service's answer.
send_message(enabled, answer) == IF ~enabled THEN t_offline ELSE answer

----------------------------------------------------------------------------
(* GridTradingStrategy *)

\* GridTradingStrategy.__init__
new_strategy ==
    [ buy_threshold      |-> BUY_THRESHOLD,
      sell_threshold     |-> SELL_THRESHOLD,
      last_buy_price     |-> None,
      last_sell_price    |-> None,
      total_trades       |-> 0,
      wins               |-> 0,
      losses             |-> 0,
      trade_amount       |-> TRADE_AMOUNT,
      consecutive_wins   |-> 0,
      consecutive_losses |-> 0 ]

\* analyze buying only on a drop strictly above the threshold.
analyze_strict_drop(s, current_price, pos) ==
    IF pos = "USDT"
    THEN IF s.last_sell_price = None
         THEN "BUY"
         ELSE IF s.last_sell_price = 0
              THEN "RAISE"
              ELSE IF (s.last_sell_price - current_price) * 100
                          > s.buy_threshold * s.last_sell_price
                   THEN "BUY"
                   ELSE "HOLD"
    ELSE IF pos = "BTC"
         THEN IF s.last_buy_price = None
              THEN "HOLD"
              ELSE IF s.last_buy_price = 0
                   THEN "RAISE"
                   ELSE IF (current_price - s.last_buy_price) * 100
                               >= s.sell_threshold * s.last_buy_price
                        THEN "SELL"
                        ELSE "HOLD"
         ELSE "HOLD"

\* analyze selling only on a rise strictly above the threshold.
analyze_strict_rise(s, current_price, pos) ==
    IF pos = "USDT"
    THEN IF s.last_sell_price = None
         THEN "BUY"
         ELSE IF s.last_sell_price = 0
              THEN "RAISE"
              ELSE IF (s.last_sell_price - current_price) * 100
                          >= s.buy_threshold * s.last_sell_price
                   THEN "BUY"
                   ELSE "HOLD"
    ELSE IF pos = "BTC"
         THEN IF s.last_buy_price = None
              THEN "HOLD"
              ELSE IF s.last_buy_price = 0
                   THEN "RAISE"
                   ELSE IF (current_price - s.last_buy_price) * 100
                               > s.sell_threshold * s.last_buy_price
                        THEN "SELL"
                        ELSE "HOLD"
         ELSE "HOLD"

\* analyze without the test of the position: a drop is a BUY whatever is held.
analyze_ignoring_position(s, current_price, pos) ==
    IF s.last_sell_price = None
    THEN "BUY"
    ELSE IF s.last_sell_price = 0
         THEN "RAISE"
         ELSE IF (s.last_sell_price - current_price) * 100
                     >= s.buy_threshold * s.last_sell_price
              THEN "BUY"
              ELSE "HOLD"

\* analyze measuring the drop from the buy price when there is one.
analyze_measuring_from_buy_price(s, current_price, pos) ==
    IF pos = "USDT"
    THEN IF s.last_sell_price = None
         THEN "BUY"
         ELSE IF s.last_sell_price = 0
              THEN "RAISE"
              ELSE LET reference == IF s.last_buy_price # None /\ s.last_buy_price # 0
                                    THEN s.last_buy_price
                                    ELSE s.last_sell_price
                   IN  IF (reference - current_price) * 100
                              >= s.buy_threshold * reference
                       THEN "BUY"
                       ELSE "HOLD"
    ELSE IF pos = "BTC"
         THEN IF s.last_buy_price = None
              THEN "HOLD"
              ELSE IF s.last_buy_price = 0
                   THEN "RAISE"
                   ELSE IF (current_price - s.last_buy_price) * 100
                               >= s.sell_threshold * s.last_buy_price
                        THEN "SELL"
                        ELSE "HOLD"
         ELSE "HOLD"

\* GridTradingStrategy.analyze: "BUY", "SELL", "HOLD", or "RAISE" for the
\* ZeroDivisionError of a division by a reference price of 0.0.
analyze(s, current_price, pos) ==
    IF pos = "USDT"
    THEN IF s.last_sell_price = None
         THEN "BUY"
         ELSE IF s.last_sell_price = 0
              THEN "RAISE"
              ELSE IF (s.last_sell_price - current_price) * 100
                          >= s.buy_threshold * s.last_sell_price
                   THEN "BUY"
                   ELSE "HOLD"
    ELSE IF pos = "BTC"
         THEN IF s.last_buy_price = None
              THEN "HOLD"
              ELSE IF s.last_buy_price = 0
                   THEN "RAISE"
                   ELSE IF (current_price - s.last_buy_price) * 100
                               >= s.sell_threshold * s.last_buy_price
                        THEN "SELL"
                        ELSE "HOLD"
         ELSE "HOLD"

\* check_stop_loss without the test of the position.
check_stop_loss_any_position(s, current_price, pos) ==
    /\ s.last_buy_price # None
    /\ s.last_buy_price > 0
    /\ (s.last_buy_price - current_price) * 100 >= stop_loss_percentage * s.last_buy_price

\* GridTradingStrategy.check_stop_loss: true iff base-held with a usable buy
\* price and a loss of at least stop_loss_percentage; guarded, never raises.
check_stop_loss(s, current_price, pos) ==
    /\ pos = "BTC"
    /\ s.last_buy_price # None
    /\ s.last_buy_price > 0
    /\ (s.last_buy_price - current_price) * 100 >= stop_loss_percentage * s.last_buy_price

\* GridTradingStrategy.record_buy
record_buy(s, price) ==
    [s EXCEPT !.last_buy_price = price, !.total_trades = @ + 1]

\* GridTradingStrategy.record_sell divides by last_buy_price when it is not None.
record_sell_raises(s) == s.last_buy_price = 0

\* record_sell counting a sale without a buy price as a loss.
record_sell_unattributed_loses(s, price) ==
    LET sold == [s EXCEPT !.last_sell_price = price, !.total_trades = @ + 1]
    IN  IF s.last_buy_price = None \/ s.last_buy_price = 0
        THEN [sold EXCEPT !.losses = @ + 1]
        ELSE IF (price - s.last_buy_price) * 100 > 0
             THEN [sold EXCEPT !.wins = @ + 1]
             ELSE [sold EXCEPT !.losses = @ + 1]

\* record_sell counting a break-even sale as a win.
record_sell_break_even_wins(s, price) ==
    LET sold == [s EXCEPT !.last_sell_price = price, !.total_trades = @ + 1]
    IN  IF s.last_buy_price = None \/ s.last_buy_price = 0
        THEN sold
        ELSE IF (price - s.last_buy_price) * 100 >= 0
             THEN [sold EXCEPT !.wins = @ + 1]
             ELSE [sold EXCEPT !.losses = @ + 1]

\* GridTradingStrategy.record_sell: the fields after the call (after the
\* assignments made before the exception when it raises).
record_sell(s, price) ==
    LET sold == [s EXCEPT !.last_sell_price = price, !.total_trades = @ + 1]
    IN  IF s.last_buy_price = None \/ s.last_buy_price = 0
        THEN sold
        ELSE IF (price - s.last_buy_price) * 100 > 0
             THEN [sold EXCEPT !.wins = @ + 1]
             ELSE [sold EXCEPT !.losses = @ + 1]

\* The streak bookkeeping of a sell: a win extends consecutive_wins and clears
\* consecutive_losses, a loss the reverse, an unattributed sell changes neither.
record_streak(before, after) ==
    IF after.wins > before.wins
    THEN [after EXCEPT !.consecutive_wins = @ + 1, !.consecutive_losses = 0]
    ELSE IF after.losses > before.losses
         THEN [after EXCEPT !.consecutive_losses = @ + 1, !.consecutive_wins = 0]
         ELSE after

\* How large a position the quote balance affords.
balance_cap(balance) == balance.USDT

\* adjust_position_size without the limits on the position size.
adjust_position_size_unclamped(s, balance) ==
    IF s.consecutive_wins >= streak_length
    THEN IF balance_cap(balance) > s.trade_amount
         THEN [s EXCEPT !.trade_amount = @ + position_size_step]
         ELSE s
    ELSE IF s.consecutive_losses >= streak_length
         THEN [s EXCEPT !.trade_amount = @ - position_size_step]
         ELSE s

\* adjust_position_size reacting to a streak one trade early.
adjust_position_size_eager(s, balance) ==
    IF s.consecutive_wins >= streak_length - 1
    THEN LET target == Min(Min(s.trade_amount + position_size_step, max_position_size),
                           balance_cap(balance))
         IN  IF target > s.trade_amount THEN [s EXCEPT !.trade_amount = target] ELSE s
    ELSE IF s.consecutive_losses >= streak_length - 1
         THEN LET target == s.trade_amount - position_size_step
              IN  IF target >= min_position_size
                  THEN [s EXCEPT !.trade_amount = target]
                  ELSE [s EXCEPT !.trade_amount = min_position_size]
         ELSE s

\* GridTradingStrategy.adjust_position_size: one step up after a winning
\* streak (within max_position_size and the balance), one step down after a
\* losing streak (not below min_position_size).
adjust_position_size(s, balance) ==
    IF s.consecutive_wins >= streak_length
    THEN LET target == Min(Min(s.trade_amount + position_size_step, max_position_size),
                           balance_cap(balance))
         IN  IF target > s.trade_amount THEN [s EXCEPT !.trade_amount = target] ELSE s
    ELSE IF s.consecutive_losses >= streak_length
         THEN LET target == s.trade_amount - position_size_step
              IN  IF target >= min_position_size
                  THEN [s EXCEPT !.trade_amount = target]
                  ELSE [s EXCEPT !.trade_amount = min_position_size]
         ELSE s

----------------------------------------------------------------------------
(* GridTradingStrategy: the trailing stop.  main.py constructs the strategy   *)
(* without it, so the bot above runs analyze as it is; the strategy script     *)
(* further down constructs strategies with and without it.                    *)

\* GridTradingStrategy.__init__ with thresholds and trailing-stop settings.
new_strategy_with(buy_threshold, sell_threshold, use_trailing_stop, percentage) ==
    [ buy_threshold             |-> buy_threshold,
      sell_threshold            |-> sell_threshold,
      last_buy_price            |-> None,
      last_sell_price           |-> None,
      total_trades              |-> 0,
      wins                      |-> 0,
      losses                    |-> 0,
      trade_amount              |-> TRADE_AMOUNT,
      consecutive_wins          |-> 0,
      consecutive_losses        |-> 0,
      use_trailing_stop         |-> use_trailing_stop,
      trailing_stop_percentage  |-> percentage,
      highest_price_since_buy   |-> None ]

\* The peak overwritten by every price seen.
update_highest_to_current(s, current_price) ==
    [s EXCEPT !.highest_price_since_buy = current_price]

\* analyze while base-held: the peak is max(peak, price), or the price when unset.
update_highest(s, current_price) ==
    IF s.highest_price_since_buy = None \/ current_price > s.highest_price_since_buy
    THEN [s EXCEPT !.highest_price_since_buy = current_price]
    ELSE s

\* The trailing stop triggers: enabled, and the drawdown from the peak is at
\* least trailing_stop_percentage.
trailing_stop(s, current_price) ==
    /\ s.use_trailing_stop
    /\ s.highest_price_since_buy # None
    /\ (s.highest_price_since_buy - current_price) * 100
           >= s.trailing_stop_percentage * s.highest_price_since_buy

\* analyze forgetting the peak when the trailing stop triggers.
analyze_resetting_peak(s, current_price, pos) ==
    IF pos = "BTC" /\ s.last_buy_price # None
    THEN LET tracked == update_highest(s, current_price)
         IN  IF trailing_stop(tracked, current_price)
             THEN [strategy |-> [tracked EXCEPT !.highest_price_since_buy = None],
                   signal |-> "SELL"]
             ELSE [strategy |-> tracked, signal |-> analyze(s, current_price, pos)]
    ELSE [strategy |-> s, signal |-> analyze(s, current_price, pos)]

\* analyze without the trailing-stop check.
analyze_ignoring_trailing_stop(s, current_price, pos) ==
    IF pos = "BTC" /\ s.last_buy_price # None
    THEN [strategy |-> update_highest(s, current_price),
          signal |-> analyze(s, current_price, pos)]
    ELSE [strategy |-> s, signal |-> analyze(s, current_price, pos)]

\* GridTradingStrategy.analyze with the trailing stop: while base-held with a
\* buy price the peak is updated and the trailing stop takes precedence over
\* the rise threshold.  The strategy after the call, and the signal.
analyze_with_trailing_stop(s, current_price, pos) ==
    IF pos = "BTC" /\ s.last_buy_price # None
    THEN LET tracked == update_highest(s, current_price)
         IN  [strategy |-> tracked,
              signal |-> IF trailing_stop(tracked, current_price)
                         THEN "SELL"
                         ELSE analyze(s, current_price, pos)]
    ELSE [strategy |-> s, signal |-> analyze(s, current_price, pos)]

\* record_buy and record_sell with the peak: a buy resets it to the buy price,
\* a sell unsets it.
record_buy_highest(s, price) ==
    [record_buy(s, price) EXCEPT !.highest_price_since_buy = price]

record_sell_highest(s, price) ==
    [record_streak(s, record_sell(s, price)) EXCEPT !.highest_price_since_buy = None]

----------------------------------------------------------------------------
(* The state file *)

\* bot_state.json does not exist.
NoFile == [missing |-> TRUE]

\* save_state with the sell price left out of the object written.
save_state_without_sell_price(pos, s) ==
    [ position        |-> pos,
      last_buy_price  |-> s.last_buy_price,
      last_sell_price |-> None ]

\* TradingBot.save_state: the JSON object written (json.dump writes None as null
\* and a float as itself).
save_state(pos, s) ==
    [ position        |-> pos,
      last_buy_price  |-> s.last_buy_price,
      last_sell_price |-> s.last_sell_price ]

\* Python's  value or 0.0  on a loaded JSON number or null.
or_zero(value) == IF value = None \/ value = 0 THEN 0 ELSE value

\* Python's truth of an Optional[float]: a price that is neither None nor 0.0.
Truthy(price) == price # None /\ price # 0

\* TradingBot.load_state on file f with a bot at position pos and strategy s;
\* quote is what get_current_price returns if it is asked.
load_state(f, pos, s, quote) ==
    IF f = NoFile
    THEN [position |-> pos, strategy |-> s, file |-> f, asked |-> FALSE]
    ELSE LET restored == [s EXCEPT !.last_buy_price  = or_zero(f.last_buy_price),
                                   !.last_sell_price = or_zero(f.last_sell_price)]
             estimate == f.position = "BTC" /\ restored.last_buy_price = 0
             estimated == [restored EXCEPT !.last_buy_price = quote]
         IN  IF estimate /\ Truthy(quote)
             THEN [position |-> f.position, strategy |-> estimated,
                   file |-> save_state(f.position, estimated), asked |-> TRUE]
             ELSE [position |-> f.position, strategy |-> restored,
                   file |-> f, asked |-> estimate]

\* reconcile with a balance of exactly the dust threshold taken as a holding.
reconcile_dust_inclusive(pos, balance) ==
    IF balance.BTC >= dust_threshold /\ pos = "USDT"
    THEN "BTC"
    ELSE IF balance.BTC < dust_threshold /\ pos = "BTC"
         THEN "USDT"
         ELSE pos

\* TradingBot.__init__, the balance check: the live balance decides the position.
reconcile(pos, balance) ==
    IF balance.BTC > dust_threshold /\ pos = "USDT"
    THEN "BTC"
    ELSE IF balance.BTC <= dust_threshold /\ pos = "BTC"
         THEN "USDT"
         ELSE pos

\* verify_position saving the corrected state before the buy price is estimated.
verify_position_saving_early(loaded, balance, quote) ==
    IF balance = NoBalance
    THEN loaded
    ELSE LET pos == reconcile(loaded.position, balance)
             s == loaded.strategy
             estimate == pos = "BTC" /\ (s.last_buy_price = None \/ s.last_buy_price = 0)
             s2 == IF estimate /\ Truthy(quote)
                   THEN [s EXCEPT !.last_buy_price = quote]
                   ELSE s
         IN  [position |-> pos, strategy |-> s2, file |-> save_state(pos, s),
              asked |-> loaded.asked \/ estimate]

\* TradingBot.__init__ after load_state: reconcile, estimate a missing buy price,
\* save; nothing when the balance query failed.
verify_position(loaded, balance, quote) ==
    IF balance = NoBalance
    THEN loaded
    ELSE LET pos == reconcile(loaded.position, balance)
             s == loaded.strategy
             estimate == pos = "BTC" /\ (s.last_buy_price = None \/ s.last_buy_price = 0)
             s2 == IF estimate /\ Truthy(quote)
                   THEN [s EXCEPT !.last_buy_price = quote]
                   ELSE s
         IN  [position |-> pos, strategy |-> s2, file |-> save_state(pos, s2),
              asked |-> loaded.asked \/ estimate]

----------------------------------------------------------------------------
(* TradingBot: the volatility monitor *)

Abs(x) == IF x < 0 THEN -x ELSE x

\* check_price_alerts keeping the sample that is exactly one window old.
check_price_alerts_keeping_boundary(history, t, current_price) ==
    SelectSeq(Append(history, [t |-> t, price |-> current_price]),
              LAMBDA sample : sample.t >= t - price_tracking_window)

\* TradingBot.check_price_alerts, the history: append the sample, evict the old.
check_price_alerts(history, t, current_price) ==
    SelectSeq(Append(history, [t |-> t, price |-> current_price]),
              LAMBDA sample : sample.t > t - price_tracking_window)

\* The move measured from the previous sample instead of the oldest retained.
price_alert_since_previous(history, current_price) ==
    /\ Len(history) >= 2
    /\ Abs(current_price - history[Len(history) - 1].price) * 100
           >= price_alert_threshold * history[Len(history) - 1].price

\* TradingBot.check_price_alerts, the alert: the move from the oldest retained
\* sample is at least the threshold.
price_alert(history, current_price) ==
    /\ Len(history) >= 2
    /\ Abs(current_price - history[1].price) * 100
           >= price_alert_threshold * history[1].price

\* TradingBot.check_price_alerts, the direction of an alert.
alert_direction(history, current_price) ==
    IF current_price - history[1].price > 0 THEN "UP" ELSE "DOWN"

----------------------------------------------------------------------------
(* TradingBot.run: one iteration up to the order *)

\* What an iteration has seen and done.
NoTick ==
    [ price       |-> None,     \* the price fetched
      sl_checked  |-> FALSE,    \* check_stop_loss was called
      stop_loss   |-> FALSE,    \* ... and returned True
      analyzed    |-> FALSE,    \* analyze was called (after check_stop_loss)
      signal      |-> "NONE",   \* the signal: analyze's, or the stop-loss SELL
      execute     |-> FALSE,    \* execute_trade is to be called with it
      alert       |-> FALSE,    \* the volatility alert fired
      direction   |-> "NONE",   \* ... and its direction
      vol_advised |-> FALSE,    \* the advisor was asked about volatility
      vol_advice  |-> NoText,   \* ... and what it answered (NoText: nothing)
      advised     |-> FALSE,    \* the advisor was asked about the trade
      advice      |-> NoText,   \* its answer
      gated       |-> FALSE,    \* the answer went through _parse_ai_confirmation
      order       |-> "NONE",   \* the order placed
      filled      |-> FALSE,    \* the exchange returned an order, not None
      order_ok    |-> FALSE,    \* what execute_trade returned
      crashed     |-> FALSE,    \* an exception left the loop body
      balance_failed |-> FALSE, \* ... raised by print_status on a balance of None
      aborted     |-> FALSE ]   \* an interrupt arrived before the order

\* The volatility question with the advisor's failure left uncaught.
ask_about_volatility_uncaught(alert, enabled, answer) ==
    [ asked  |-> alert /\ enabled,
      advice |-> IF alert /\ enabled THEN answer ELSE NoText,
      raised |-> alert /\ enabled /\ answer = NoText ]

\* check_price_alerts, its last step: on an alert an enabled advisor is asked
\* about the volatility; the answer is logged, a failure caught and logged.
ask_about_volatility(alert, enabled, answer) ==
    [ asked  |-> alert /\ enabled,
      advice |-> IF alert /\ enabled THEN answer ELSE NoText,
      raised |-> FALSE ]

\* The test on the fetched price left out.
price_never_unavailable(current_price) == FALSE

\* run(): the test on the fetched price.
price_unavailable(current_price) == current_price = None

\* run(): print_status is called every 10th iteration and for every signal.
shows_status(n, signal) == n % status_every = 0 \/ signal # "HOLD"

\* print_status reads balance.get(...) of whatever get_balance returned.
print_status_raises(balance) == balance = NoBalance

\* The signal executed whatever the advisor answered.
gate_allows_always(require, advice) == TRUE

\* run(), step 6: whether the signal is executed given the advisor's answer.
gate_allows(require, advice) ==
    IF require
    THEN advice # NoText /\ parse_ai_confirmation(advice)
    ELSE TRUE

\* decide without the test for HOLD: the advisor is asked and the signal handed
\* to execute_trade whatever it is.
decide_acting_on_hold(s, pos, current_price, n, status_balance, enabled, require, answer) ==
    LET base == [NoTick EXCEPT !.price = current_price, !.sl_checked = TRUE]
    IN  IF check_stop_loss(s, current_price, pos)
        THEN IF print_status_raises(status_balance)
             THEN [base EXCEPT !.stop_loss = TRUE, !.crashed = TRUE,
                               !.balance_failed = TRUE]
             ELSE [base EXCEPT !.stop_loss = TRUE, !.signal = "SELL", !.execute = TRUE]
        ELSE LET signal == analyze(s, current_price, pos)
                 seen == [base EXCEPT !.analyzed = TRUE, !.signal = signal]
                 advice == send_message(enabled, answer)
                 asked == [seen EXCEPT !.advised = TRUE, !.advice = advice,
                                       !.gated = require /\ advice # NoText]
             IN  IF signal = "RAISE"
                 THEN [seen EXCEPT !.crashed = TRUE]
                 ELSE IF shows_status(n, signal) /\ print_status_raises(status_balance)
                      THEN [seen EXCEPT !.crashed = TRUE, !.balance_failed = TRUE]
                      ELSE IF gate_allows(require, advice)
                           THEN [asked EXCEPT !.execute = TRUE]
                           ELSE asked

\* run(), steps 3 to 6 for a fetched price: the iteration's record up to the
\* call of execute_trade.
decide(s, pos, current_price, n, status_balance, enabled, require, answer) ==
    LET base == [NoTick EXCEPT !.price = current_price, !.sl_checked = TRUE]
    IN  IF check_stop_loss(s, current_price, pos)
        THEN IF print_status_raises(status_balance)
             THEN [base EXCEPT !.stop_loss = TRUE, !.crashed = TRUE,
                               !.balance_failed = TRUE]
             ELSE [base EXCEPT !.stop_loss = TRUE, !.signal = "SELL", !.execute = TRUE]
        ELSE LET signal == analyze(s, current_price, pos)
                 seen == [base EXCEPT !.analyzed = TRUE, !.signal = signal]
                 advice == send_message(enabled, answer)
                 asked == [seen EXCEPT !.advised = TRUE, !.advice = advice,
                                       !.gated = require /\ advice # NoText]
             IN  IF signal = "RAISE"
                 THEN [seen EXCEPT !.crashed = TRUE]
                 ELSE IF shows_status(n, signal) /\ print_status_raises(status_balance)
                      THEN [seen EXCEPT !.crashed = TRUE, !.balance_failed = TRUE]
                      ELSE IF signal = "HOLD"
                           THEN seen
                           ELSE IF gate_allows(require, advice)
                                THEN [asked EXCEPT !.execute = TRUE]
                                ELSE asked

\* TradingBot.stop: the fields it leaves; the closing summary is sent unless
\* send_daily_summary raises on a balance of None, before sending anything.
stop_raises(balance) == balance = NoBalance

----------------------------------------------------------------------------
(* TradingBot.execute_trade *)

\* execute_trade recording the trade without looking at what the exchange returned.
execute_trade_unchecked(signal, price, pos, s, f, order, balance) ==
    IF signal = "BUY"
    THEN LET bought == record_buy(s, price)
         IN  [position |-> "BTC", strategy |-> bought,
              file |-> save_state("BTC", bought), ok |-> order, raised |-> FALSE]
    ELSE LET sold == record_streak(s, record_sell(s, price))
         IN  [position |-> "USDT", strategy |-> sold,
              file |-> save_state("USDT", sold), ok |-> order, raised |-> FALSE]

\* TradingBot.execute_trade(signal, price) on a bot at position pos with strategy
\* s and state file f; order is whether the exchange returned an order, balance
\* what get_balance returns after a sell.  ok is the value returned, raised
\* whether an exception left the method instead.
execute_trade(signal, price, pos, s, f, order, balance) ==
    LET failed == [position |-> pos, strategy |-> s, file |-> f,
                   ok |-> FALSE, raised |-> FALSE]
    IN  IF signal = "BUY"
        THEN IF order
             THEN LET bought == record_buy(s, price)
                  IN  [position |-> "BTC", strategy |-> bought,
                       file |-> save_state("BTC", bought), ok |-> TRUE, raised |-> FALSE]
             ELSE failed
        ELSE IF signal = "SELL"
             THEN IF order
                  THEN IF record_sell_raises(s)
                       THEN [position |-> pos, strategy |-> record_sell(s, price),
                             file |-> f, ok |-> FALSE, raised |-> TRUE]
                       ELSE LET sold == record_streak(s, record_sell(s, price))
                                sized == IF balance # NoBalance
                                         THEN adjust_position_size(sold, balance)
                                         ELSE sold
                            IN  [position |-> "USDT", strategy |-> sized,
                                 file |-> save_state("USDT", sized),
                                 ok |-> TRUE, raised |-> FALSE]
                  ELSE failed
             ELSE failed

----------------------------------------------------------------------------
(* MultiBotManager and the API's ConnectionManager: values *)

\* The trading pairs of a multi-symbol run, in the order of the list.
Symbols == << "BTC/USDT", "ETH/USDT" >>
SymbolSet == { Symbols[i] : i \in 1..Len(Symbols) }

\* Loop iterations of one bot of a multi-symbol run.
MaxBotTicks == 2

\* TradingBot.save_state and load_state: the file a bot of the symbol opens.
state_file(symbol) == "bot_state.json"

StateFiles == { state_file(symbol) : symbol \in SymbolSet }

\* symbol.split('/')[0]: the base asset of a trading pair.
base_currency(symbol) == IF symbol = "BTC/USDT" THEN "BTC" ELSE "ETH"

\* What the exchange account holds when a bot is constructed.
Accounts == [ BTC : BtcBalances, ETH : {0, dust_threshold + 1}, USDT : {0} ]

\* BinanceTestnet.get_balance on an account: the free USDT and BTC, or None
\* (NoBalance) when the query failed.
get_balance(account, failed) ==
    IF failed THEN NoBalance ELSE [ BTC |-> account.BTC, USDT |-> account.USDT ]

\* No construction seen: the account and what get_balance returned of it.
NoAccount == [ account |-> NoBalance, balance |-> NoBalance ]

\* A bot not created yet; read is the bot whose snapshot its load_state read,
\* stop_requested whether stop_all has called its stop(), boot what its
\* construction saw of the account (until the threads are started).
NoBot == [ pc |-> "off", running |-> FALSE, position |-> "USDT",
           strategy |-> new_strategy, iteration |-> 0, read |-> "none",
           stop_requested |-> FALSE, boot |-> NoAccount ]
NoBots == [ symbol \in SymbolSet |-> NoBot ]

\* A state file nobody has written; writer is the bot that wrote it last.
NoSnapshot == [ content |-> NoFile, writer |-> "none" ]
NoFiles == [ name \in StateFiles |-> NoSnapshot ]

\* What get_balance returns to the bots of a multi-symbol run once they trade.
MultiBalance == [ BTC |-> 0, USDT |-> max_position_size ]

\* WebSocket clients connected at once, and loop iterations of the API's bot.
MaxClients == 2
MaxBroadcastTicks == 20

\* Prices of the feed the API process polls: 1000 -> 1001 is a move of exactly
\* 0.1%, 1001 -> 1000 one of a little less.
FeedPrices == {1000, 1001, 1002}

\* run(): a price_update is broadcast every 10 iterations.
broadcast_every == 10

\* broadcast_price: the smallest move broadcast, 0.1%, in thousandths.
price_filter_per_mille == 1

\* ConnectionManager.__init__.  sent is the price of the last price_update
\* delivered to the clients, by the path that sent it, flip changes with every
\* price_update delivered.
NoManager == [ active_connections |-> 0, last_price |-> None,
               sent |-> None, by |-> "none", flip |-> FALSE ]

\* Bots the API is asked to start.
MaxBots == 3

\* A bot the API has not created.
NoThread == [ pc |-> "none", running |-> FALSE ]

\* bot_api's globals at import: trading_bot (0: None), bot_running; threads are
\* the bots created so far with the place of their threads, response the
\* answer to the last start or stop request.
NoApi == [ trading_bot |-> 0, bot_running |-> FALSE,
           threads |-> [id \in 1..MaxBots |-> NoThread], response |-> "none" ]

\* The WebSockets that may connect.
MaxSockets == 2
Sockets == 1..MaxSockets

\* Who calls into the ConnectionManager besides the WebSocket endpoints: a
\* coroutine of the API's event loop ("loop": broadcast_price_updates or
\* send_heartbeat) and the bot's thread ("bot": asyncio.run(manager.broadcast)).
Callers == {"loop", "bot"}

\* Who is running on the API's event loop between two awaits: nobody, the
\* endpoint of a WebSocket, or the loop's broadcasting coroutine.
Free == [ task |-> FALSE, ws |-> 0 ]
Endpoint(ws) == [ task |-> FALSE, ws |-> ws ]
LoopTask == [ task |-> TRUE, ws |-> 0 ]

\* A caller at rest: kind is "broadcast" or "heartbeat", i the list iterator's
\* index, current the connection being sent to, dead the local
\* dead_connections, failed every connection whose send failed in the call,
\* target the argument of the disconnect in progress, ended how the last call
\* ended.
NoTask == [ pc |-> "idle", kind |-> "none", i |-> 0, current |-> 0,
            dead |-> << >>, failed |-> {}, target |-> 0, ended |-> "none" ]

\* ConnectionManager.__init__: active_connections (a list) and the keys of
\* connection_info; endpoint is the place of each WebSocket's handler, slot who
\* runs on the event loop, task the callers.
NoConnections == [ active_connections |-> << >>, connection_info |-> {},
                   endpoint |-> [ws \in Sockets |-> "new"], slot |-> Free,
                   task |-> [t \in Callers |-> NoTask] ]

\* The elements of a list.
Elements(list) == { list[k] : k \in 1..Len(list) }

\* list.remove(x): the list without the first occurrence of x.
list_remove(list, x) ==
    LET k == CHOOSE k \in 1..Len(list) :
                 list[k] = x /\ \A j \in 1..(k - 1) : list[j] # x
    IN  SubSeq(list, 1, k - 1) \o SubSeq(list, k + 1, Len(list))

----------------------------------------------------------------------------
(* The process *)

\* What the construction saw: the state file it found, the balance and the
\* prices the exchange returned, whether a price was asked for.
NoBoot == [saved |-> NoFile, balance |-> NoBalance, asked |-> FALSE,
           quote1 |-> None, quote2 |-> None, probe |-> "none"]

\* What the health probe of AIAdvisor.__init__ can meet: status 200, another
\* status, or an exception of the request (timeout, refused connection, other).
Probes == {"ok", "status", "error"}

\* _health_check taking any answer of the service for health.
health_check_accepting_any_status(probe) == probe \in {"ok", "status"}

\* AIAdvisor._health_check: the value it leaves in enabled.
health_check(probe) == probe = "ok"

Init ==
    /\ pc = "off"
    /\ running = FALSE
    /\ position = "USDT"
    /\ strategy = new_strategy
    /\ price_history = << >>
    /\ file = NoFile
    /\ iteration = 0
    /\ now = 0
    /\ require_ai_confirmation \in BOOLEAN
    /\ ai_enabled = FALSE
    /\ runs = 0
    /\ boot = NoBoot
    /\ tick = NoTick
    /\ summary = 0
    /\ elapsed = 0
    /\ bots = NoBots
    /\ files = NoFiles
    /\ manager = NoManager
    /\ api = NoApi
    /\ connections = NoConnections

\* What get_current_price returns when it is called; None stands for the call
\* that is not made.
Quotes(called) == IF called THEN Prices \cup {None} ELSE {None}

\* A process starts: AIAdvisor.__init__ with its health probe,
\* GridTradingStrategy.__init__ and TradingBot.__init__, with the configuration
\* (require_ai_confirmation) of the installation.  quote1 and quote2 are what
\* get_current_price returns to load_state and to __init__ if asked.
Construct ==
    /\ pc \in {"off", "returned", "raised"}
    /\ runs < MaxRuns
    /\ \E balance \in BootBalances :
       \E quote1 \in Quotes(load_state(file, "USDT", new_strategy, None).asked) :
       \E quote2 \in Quotes(verify_position(
                                [load_state(file, "USDT", new_strategy, quote1)
                                    EXCEPT !.asked = FALSE],
                                balance, None).asked) :
          LET loaded == load_state(file, "USDT", new_strategy, quote1)
              built == verify_position(loaded, balance, quote2)
          IN  /\ position' = built.position
              /\ strategy' = built.strategy
              /\ file' = built.file
              /\ \E probe \in Probes :
                    /\ ai_enabled' = health_check(probe)
                    /\ boot' = [saved |-> file, balance |-> balance,
                                asked |-> built.asked, quote1 |-> quote1,
                                quote2 |-> quote2, probe |-> probe]
    /\ pc' = "ready"
    /\ running' = FALSE
    /\ price_history' = << >>
    /\ iteration' = 0
    /\ tick' = NoTick
    /\ summary' = 0
    /\ runs' = runs + 1
    /\ now' = 0
    /\ UNCHANGED << require_ai_confirmation, elapsed >>
    /\ UNCHANGED << bots, files, manager, api, connections >>

\* run() is entered: running is set and the loop begins.
Start ==
    /\ pc = "ready"
    /\ pc' = "idle"
    /\ running' = TRUE
    /\ boot' = NoBoot
    /\ UNCHANGED << position, strategy, price_history, file, iteration, now,
                    require_ai_confirmation, ai_enabled, runs, tick, summary, elapsed >>
    /\ UNCHANGED << bots, files, manager, api, connections >>

\* stop() called in run()'s exception handlers: run() ends there, by returning
\* or with the exception stop() raises.
StopInHandler(balance) ==
    /\ running' = FALSE
    /\ file' = save_state(position', strategy')
    /\ IF stop_raises(balance)
       THEN pc' = "raised" /\ summary' = summary
       ELSE pc' = "returned" /\ summary' = summary + 1

\* What the advisory service answers when it is asked, and what get_balance
\* returns to stop() when stop() is called; the first element stands for the
\* call that is not made.
Answers(called) == IF called THEN AdviceTexts ELSE {NoText}
StopBalances(called) == IF called THEN BalanceQueries ELSE {NoBalance}

\* What the advisor answers to the volatility question when it is asked: an
\* advice, or nothing (NoText) when the request failed.
VolatilityAnswers(called) == IF called THEN {NoText, t_no} ELSE {NoText}

\* One loop iteration up to the order: fetch the price, feed the volatility
\* monitor, check the stop-loss, analyze, show the status, consult the advisor.
Tick ==
    /\ pc = "idle"
    /\ running
    /\ elapsed < MaxTicks
    /\ iteration' = iteration + 1
    /\ elapsed' = elapsed + 1
    /\ now' = now + CheckInterval
    /\ \E current_price \in Prices \cup {None}, status_balance \in BalanceQueries :
       \E answer \in Answers(~price_unavailable(current_price)
                             /\ decide(strategy, position, current_price, iteration',
                                       status_balance, ai_enabled, require_ai_confirmation,
                                       NoText).advised) :
       \E stop_balance \in StopBalances(~price_unavailable(current_price)
                             /\ decide(strategy, position, current_price, iteration',
                                       status_balance, ai_enabled, require_ai_confirmation,
                                       NoText).crashed) :
          IF price_unavailable(current_price)
          THEN /\ tick' = NoTick
               /\ pc' = "idle"
               /\ UNCHANGED << running, position, strategy, price_history, file, summary >>
          ELSE LET history == check_price_alerts(price_history, now', current_price)
                   alert == price_alert(history, current_price)
                   monitored == [NoTick EXCEPT
                                    !.price = current_price,
                                    !.alert = alert,
                                    !.direction = IF alert
                                        THEN alert_direction(history, current_price)
                                        ELSE "NONE"]
               IN  \E vol_answer \in VolatilityAnswers(alert /\ ai_enabled) :
                   LET consulted == ask_about_volatility(alert, ai_enabled, vol_answer)
                       seen == decide(strategy, position, current_price, iteration',
                                      status_balance, ai_enabled, require_ai_confirmation,
                                      answer)
                   IN  /\ price_history' = history
                       /\ UNCHANGED << position, strategy >>
                       /\ IF consulted.raised
                          THEN /\ tick' = [monitored EXCEPT
                                              !.vol_advised = consulted.asked,
                                              !.vol_advice = consulted.advice,
                                              !.crashed = TRUE]
                               /\ StopInHandler(stop_balance)
                          ELSE /\ tick' = [seen EXCEPT
                                              !.alert = monitored.alert,
                                              !.direction = monitored.direction,
                                              !.vol_advised = consulted.asked,
                                              !.vol_advice = consulted.advice]
                               /\ IF seen.crashed
                                  THEN StopInHandler(stop_balance)
                                  ELSE /\ pc' = IF seen.execute THEN "exec" ELSE "idle"
                                       /\ UNCHANGED << running, file, summary >>
    /\ UNCHANGED << require_ai_confirmation, ai_enabled, runs, boot >>
    /\ UNCHANGED << bots, files, manager, api, connections >>

\* The rest of the iteration: execute_trade with the iteration's signal and price.
Execute ==
    /\ pc = "exec"
    /\ \E order \in BOOLEAN :
       \E balance \in IF order /\ tick.signal = "SELL" THEN TradeBalances ELSE {NoBalance} :
       \E stop_balance \in StopBalances(execute_trade(tick.signal, tick.price, position,
                                           strategy, file, order, balance).raised) :
          LET done == execute_trade(tick.signal, tick.price, position, strategy, file,
                                    order, balance)
          IN  /\ position' = done.position
              /\ strategy' = done.strategy
              /\ tick' = [tick EXCEPT !.order = tick.signal, !.filled = order,
                                      !.order_ok = done.ok, !.crashed = done.raised]
              /\ IF done.raised
                 THEN StopInHandler(stop_balance)
                 ELSE /\ pc' = "idle"
                      /\ file' = done.file
                      /\ UNCHANGED << running, summary >>
    /\ UNCHANGED << price_history, iteration, now, require_ai_confirmation, ai_enabled,
                    runs, boot, elapsed >>
    /\ UNCHANGED << bots, files, manager, api, connections >>

\* KeyboardInterrupt in run(), which is then in the main thread (main.py),
\* between two iterations or before the order of the iteration in flight: the
\* handler calls stop().  No other thread has called stop() then.
Interrupt ==
    /\ pc \in {"idle", "exec"}
    /\ running
    /\ tick' = [tick EXCEPT !.aborted = (pc = "exec")]
    /\ UNCHANGED << position, strategy >>
    /\ \E stop_balance \in BalanceQueries : StopInHandler(stop_balance)
    /\ UNCHANGED << price_history, iteration, now, require_ai_confirmation, ai_enabled,
                    runs, boot, elapsed >>
    /\ UNCHANGED << bots, files, manager, api, connections >>

\* stop() called from another thread (MultiBotManager.stop_all, the API's
\* stop_bot) while the loop runs: it runs there, whatever the loop is doing.
StopRequest ==
    /\ pc \in {"idle", "exec"}
    /\ running
    /\ running' = FALSE
    /\ file' = save_state(position, strategy)
    /\ \E stop_balance \in BalanceQueries :
          summary' = IF stop_raises(stop_balance) THEN summary ELSE summary + 1
    /\ UNCHANGED << pc, position, strategy, price_history, iteration, now,
                    require_ai_confirmation, ai_enabled, runs, boot, tick, elapsed >>
    /\ UNCHANGED << bots, files, manager, api, connections >>

\* The loop test finds running cleared: run() returns.
LoopExit ==
    /\ pc = "idle"
    /\ ~running
    /\ pc' = "returned"
    /\ UNCHANGED << running, position, strategy, price_history, file, iteration, now,
                    require_ai_confirmation, ai_enabled, runs, boot, tick, summary, elapsed >>
    /\ UNCHANGED << bots, files, manager, api, connections >>

Next ==
    \/ Construct
    \/ Start
    \/ Tick
    \/ Execute
    \/ Interrupt
    \/ StopRequest
    \/ LoopExit

Spec == Init /\ [][Next]_vars

----------------------------------------------------------------------------
(* The strategy script: a GridTradingStrategy driven directly, the way the    *)
(* test scripts drive it (test_strategy.py, test_stop_loss.py,                 *)
(* test_trailing_stop.py, test_position_sizing.py): any method, in any order,  *)
(* with any price and position argument.  strategy is the object, position the *)
(* position argument of the last analyze or check_stop_loss, tick the last     *)
(* call; the bot's other variables stay as they start.                         *)

\* The last call: the method, its price or balance argument, what it returned.
NoCall ==
    [ op        |-> "none",
      price     |-> None,
      balance   |-> NoBalance,
      signal    |-> "NONE",    \* what analyze returned
      triggered |-> FALSE,     \* what check_stop_loss returned
      repeated  |-> FALSE,     \* analyze called again with the arguments of the call before
      text      |-> NoText,    \* the answer given to _parse_ai_confirmation
      approved  |-> FALSE ]    \* what _parse_ai_confirmation returned

ScriptInit ==
    /\ pc = "script"
    /\ running = FALSE
    /\ position = "USDT"
    /\ \E buy_threshold \in BuyThresholds, sell_threshold \in SellThresholds,
          use_trailing_stop \in BOOLEAN, percentage \in TrailingStopPercentages :
          strategy = new_strategy_with(buy_threshold, sell_threshold,
                                       use_trailing_stop, percentage)
    /\ price_history = << >>
    /\ file = NoFile
    /\ iteration = 0
    /\ now = 0
    /\ require_ai_confirmation = FALSE
    /\ ai_enabled = FALSE
    /\ runs = 0
    /\ boot = NoBoot
    /\ tick = NoCall
    /\ summary = 0
    /\ elapsed = 0
    /\ bots = NoBots
    /\ files = NoFiles
    /\ manager = NoManager
    /\ api = NoApi
    /\ connections = NoConnections

\* strategy.analyze(current_price, pos)
Analyze ==
    /\ \E current_price \in ScriptPrices, pos \in {"USDT", "BTC"} :
          LET done == analyze_with_trailing_stop(strategy, current_price, pos)
          IN  /\ strategy' = done.strategy
              /\ position' = pos
              /\ tick' = [NoCall EXCEPT !.op = "analyze", !.price = current_price,
                                        !.signal = done.signal,
                                        !.repeated = /\ tick.op = "analyze"
                                                     /\ tick.price = current_price
                                                     /\ position = pos]
    /\ UNCHANGED << pc, running, price_history, file, iteration, now,
                    require_ai_confirmation, ai_enabled, runs, boot, summary, elapsed >>
    /\ UNCHANGED << bots, files, manager, api, connections >>

\* strategy.check_stop_loss(current_price, pos)
CheckStopLoss ==
    /\ \E current_price \in ScriptPrices, pos \in {"USDT", "BTC"} :
          /\ position' = pos
          /\ tick' = [NoCall EXCEPT !.op = "check_stop_loss", !.price = current_price,
                         !.triggered = check_stop_loss(strategy, current_price, pos)]
    /\ UNCHANGED << pc, running, strategy, price_history, file, iteration, now,
                    require_ai_confirmation, ai_enabled, runs, boot, summary, elapsed >>
    /\ UNCHANGED << bots, files, manager, api, connections >>

\* strategy.record_buy(price)
RecordBuy ==
    /\ strategy.total_trades < MaxTrades
    /\ \E price \in ScriptPrices :
          /\ strategy' = record_buy_highest(strategy, price)
          /\ tick' = [NoCall EXCEPT !.op = "record_buy", !.price = price]
    /\ UNCHANGED << pc, running, position, price_history, file, iteration, now,
                    require_ai_confirmation, ai_enabled, runs, boot, summary, elapsed >>
    /\ UNCHANGED << bots, files, manager, api, connections >>

\* strategy.record_sell(price)
RecordSell ==
    /\ strategy.total_trades < MaxTrades
    /\ \E price \in ScriptPrices :
          /\ strategy' = record_sell_highest(strategy, price)
          /\ tick' = [NoCall EXCEPT !.op = "record_sell", !.price = price]
    /\ UNCHANGED << pc, running, position, price_history, file, iteration, now,
                    require_ai_confirmation, ai_enabled, runs, boot, summary, elapsed >>
    /\ UNCHANGED << bots, files, manager, api, connections >>

\* strategy.adjust_position_size(balance, win_rate)
AdjustPositionSize ==
    /\ \E balance \in TradeBalances \ {NoBalance} :
          /\ strategy' = adjust_position_size(strategy, balance)
          /\ tick' = [NoCall EXCEPT !.op = "adjust_position_size", !.balance = balance]
    /\ UNCHANGED << pc, running, position, price_history, file, iteration, now,
                    require_ai_confirmation, ai_enabled, runs, boot, summary, elapsed >>
    /\ UNCHANGED << bots, files, manager, api, connections >>

\* bot._parse_ai_confirmation(text), tried before the strategy is used.
ParseAiConfirmation ==
    /\ tick.op \in {"none", "parse_ai_confirmation"}
    /\ \E text \in ConfirmationTexts :
          tick' = [NoCall EXCEPT !.op = "parse_ai_confirmation", !.text = text,
                                 !.approved = parse_ai_confirmation(text)]
    /\ UNCHANGED << pc, running, position, strategy, price_history, file, iteration, now,
                    require_ai_confirmation, ai_enabled, runs, boot, summary, elapsed >>
    /\ UNCHANGED << bots, files, manager, api, connections >>

ScriptNext ==
    \/ ParseAiConfirmation
    \/ Analyze
    \/ CheckStopLoss
    \/ RecordBuy
    \/ RecordSell
    \/ AdjustPositionSize

ScriptSpec == ScriptInit /\ [][ScriptNext]_vars

----------------------------------------------------------------------------
(* The multi-symbol process: MultiBotManager with one TradingBot per symbol,  *)
(* each in its own thread, all in one working directory.  bots and files are   *)
(* its state; a bot's iteration is taken in one step, with the advisor off.    *)

\* open(state_file, 'w') and json.dump by the bot of the symbol.
write_state(fs, symbol, content) ==
    [fs EXCEPT ![state_file(symbol)] = [content |-> content, writer |-> symbol]]

MultiInit ==
    /\ pc = "multi"
    /\ running = FALSE
    /\ position = "USDT"
    /\ strategy = new_strategy
    /\ price_history = << >>
    /\ file = NoFile
    /\ iteration = 0
    /\ now = 0
    /\ require_ai_confirmation = FALSE
    /\ ai_enabled = FALSE
    /\ runs = 0
    /\ boot = NoBoot
    /\ tick = NoTick
    /\ summary = 0
    /\ elapsed = 0
    /\ bots = NoBots
    /\ files = NoFiles
    /\ manager = NoManager
    /\ api = NoApi
    /\ connections = NoConnections

\* create_bots, one turn of its loop: TradingBot.__init__ for the next symbol of
\* the list, which loads the state file and saves it after the balance check.
CreateBot ==
    /\ \E i \in 1..Len(Symbols) :
          LET symbol == Symbols[i]
              snapshot == files[state_file(symbol)]
              f == snapshot.content
          IN  /\ bots[symbol].pc = "off"
              /\ \A j \in 1..(i - 1) : bots[Symbols[j]].pc # "off"
              /\ \E account \in Accounts, failed \in BOOLEAN :
                 \E quote1 \in Quotes(load_state(f, "USDT", new_strategy, None).asked) :
                 \E quote2 \in Quotes(verify_position(
                                          [load_state(f, "USDT", new_strategy, quote1)
                                              EXCEPT !.asked = FALSE],
                                          get_balance(account, failed), None).asked) :
                    LET balance == get_balance(account, failed)
                        loaded == load_state(f, "USDT", new_strategy, quote1)
                        built == verify_position(loaded, balance, quote2)
                        wrote == loaded.file # f \/ balance # NoBalance
                    IN  /\ bots' = [bots EXCEPT ![symbol] =
                                      [ pc |-> "ready", running |-> FALSE,
                                        position |-> built.position,
                                        strategy |-> built.strategy,
                                        iteration |-> 0,
                                        read |-> IF f = NoFile THEN "none"
                                                 ELSE snapshot.writer,
                                        stop_requested |-> FALSE,
                                        boot |-> [ account |-> account,
                                                   balance |-> balance ] ]]
                        /\ files' = IF wrote
                                    THEN write_state(files, symbol, built.file)
                                    ELSE files
    /\ UNCHANGED << manager, api, connections >>
    /\ UNCHANGED bot_vars

\* start_all: a thread is started for every bot, which will call its run().
StartAll ==
    /\ \A symbol \in SymbolSet : bots[symbol].pc = "ready"
    /\ bots' = [symbol \in SymbolSet |->
                   [bots[symbol] EXCEPT !.pc = "started", !.boot = NoAccount]]
    /\ UNCHANGED << files, manager, api, connections >>
    /\ UNCHANGED bot_vars

\* The thread of a bot enters run(): running is set and the loop begins.
EnterRun ==
    /\ \E symbol \in SymbolSet :
          /\ bots[symbol].pc = "started"
          /\ bots' = [bots EXCEPT ![symbol].pc = "idle", ![symbol].running = TRUE]
    /\ UNCHANGED << files, manager, api, connections >>
    /\ UNCHANGED bot_vars

\* stop() called in run()'s exception handler: the flag is cleared, the state
\* saved by the caller, and run() ends.
stop_bot(b) == [b EXCEPT !.pc = "returned", !.running = FALSE]

\* One loop iteration of the bot of a symbol: the price, the signal, the order.
BotTick ==
    /\ \E symbol \in SymbolSet :
          LET b == bots[symbol]
              n == b.iteration + 1
              f == files[state_file(symbol)].content
          IN  /\ b.pc = "idle"
              /\ b.running
              /\ b.iteration < MaxBotTicks
              /\ \E current_price \in Prices \cup {None}, order \in BOOLEAN :
                    IF price_unavailable(current_price)
                    THEN /\ bots' = [bots EXCEPT ![symbol].iteration = n]
                         /\ UNCHANGED files
                    ELSE LET seen == decide(b.strategy, b.position, current_price, n,
                                            MultiBalance, FALSE, FALSE, NoText)
                             done == execute_trade(seen.signal, current_price, b.position,
                                                   b.strategy, f, order, MultiBalance)
                         IN  IF seen.crashed
                             THEN /\ bots' = [bots EXCEPT ![symbol] =
                                                [stop_bot(b) EXCEPT !.iteration = n]]
                                  /\ files' = write_state(files, symbol,
                                                  save_state(b.position, b.strategy))
                             ELSE IF ~seen.execute
                                  THEN /\ bots' = [bots EXCEPT ![symbol].iteration = n]
                                       /\ UNCHANGED files
                                  ELSE IF done.raised
                                       THEN /\ bots' = [bots EXCEPT ![symbol] =
                                                  [stop_bot(b) EXCEPT
                                                      !.iteration = n,
                                                      !.strategy = done.strategy]]
                                            /\ files' = write_state(files, symbol,
                                                  save_state(b.position, done.strategy))
                                       ELSE /\ bots' = [bots EXCEPT ![symbol] =
                                                  [b EXCEPT !.iteration = n,
                                                            !.position = done.position,
                                                            !.strategy = done.strategy]]
                                            /\ files' = IF done.ok
                                                  THEN write_state(files, symbol, done.file)
                                                  ELSE files
    /\ UNCHANGED << manager, api, connections >>
    /\ UNCHANGED bot_vars

\* stop_all, one turn of its loop, in the manager's thread once the threads
\* are started: stop() of the bot of a symbol clears running and saves the
\* state, wherever the bot's own thread is.
StopBot ==
    /\ \E symbol \in SymbolSet :
          LET b == bots[symbol]
          IN  /\ b.pc \in {"started", "idle"}
              /\ ~b.stop_requested
              /\ bots' = [bots EXCEPT ![symbol].running = FALSE,
                                      ![symbol].stop_requested = TRUE]
              /\ files' = write_state(files, symbol, save_state(b.position, b.strategy))
    /\ UNCHANGED << manager, api, connections >>
    /\ UNCHANGED bot_vars

\* The loop test of a bot finds running cleared: its run() returns.
ExitRun ==
    /\ \E symbol \in SymbolSet :
          /\ bots[symbol].pc = "idle"
          /\ ~bots[symbol].running
          /\ bots' = [bots EXCEPT ![symbol].pc = "returned"]
    /\ UNCHANGED << files, manager, api, connections >>
    /\ UNCHANGED bot_vars

MultiNext ==
    \/ CreateBot
    \/ StartAll
    \/ EnterRun
    \/ BotTick
    \/ StopBot
    \/ ExitRun

MultiSpec == MultiInit /\ [][MultiNext]_vars

----------------------------------------------------------------------------
(* The API process: the ConnectionManager, the background broadcaster and a   *)
(* bot started through the API, whose loop runs in a thread of the process.    *)
(* manager is the ConnectionManager, iteration the counter of the bot's loop.  *)

\* ConnectionManager.broadcast of a price_update sent by a path.
broadcast(m, price, by) ==
    IF m.active_connections = 0
    THEN m
    ELSE [m EXCEPT !.sent = price, !.by = by, !.flip = ~m.flip]

\* ConnectionManager.broadcast_price; a price of None raises in the arithmetic
\* or in the formatting, before anything is sent, and the caller catches it.
broadcast_price(m, price) ==
    IF price = None
    THEN m
    ELSE IF /\ m.last_price # None
            /\ Abs(price - m.last_price) * 1000 < price_filter_per_mille * m.last_price
         THEN m
         ELSE broadcast([m EXCEPT !.last_price = price], price, "broadcaster")

\* TradingBot._broadcast_update("price_update", ...): manager.broadcast run in a
\* new event loop of the bot's thread.  The sockets belong to the server's loop:
\* the send goes through ("sent"), raises in send_text so that broadcast drops
\* the connections as dead ("dead"), or raises before it ("failed").
broadcast_update(m, price, outcome) ==
    IF outcome = "sent"
    THEN broadcast(m, price, "bot")
    ELSE IF outcome = "dead"
         THEN [m EXCEPT !.active_connections = 0]
         ELSE m

ApiInit ==
    /\ pc = "api"
    /\ running = TRUE
    /\ position = "USDT"
    /\ strategy = new_strategy
    /\ price_history = << >>
    /\ file = NoFile
    /\ iteration = 0
    /\ now = 0
    /\ require_ai_confirmation = FALSE
    /\ ai_enabled = FALSE
    /\ runs = 0
    /\ boot = NoBoot
    /\ tick = NoTick
    /\ summary = 0
    /\ elapsed = 0
    /\ bots = NoBots
    /\ files = NoFiles
    /\ manager = NoManager
    /\ api = NoApi
    /\ connections = NoConnections

\* The WebSocket endpoint: ConnectionManager.connect.
ClientConnects ==
    /\ manager.active_connections < MaxClients
    /\ manager' = [manager EXCEPT !.active_connections = @ + 1]
    /\ UNCHANGED << bots, files, api, connections >>
    /\ UNCHANGED bot_vars

\* The WebSocket endpoint: ConnectionManager.disconnect.
ClientDisconnects ==
    /\ manager.active_connections > 0
    /\ manager' = [manager EXCEPT !.active_connections = @ - 1]
    /\ UNCHANGED << bots, files, api, connections >>
    /\ UNCHANGED bot_vars

\* broadcast_price_updates, one turn of its loop with a client connected: the
\* price is fetched and handed to broadcast_price.
BroadcastPriceUpdates ==
    /\ manager.active_connections > 0
    /\ \E current_price \in FeedPrices \cup {None} :
          manager' = broadcast_price(manager, current_price)
    /\ UNCHANGED << bots, files, api, connections >>
    /\ UNCHANGED bot_vars

\* run() of the API's bot, one iteration as the clients see it: the price is
\* fetched and, every tenth iteration, broadcast as a price_update.  What else
\* the iteration broadcasts (trade_executed, status_change) is no price_update
\* and leaves the manager's last_price alone.
BotBroadcasts ==
    /\ running
    /\ iteration < MaxBroadcastTicks
    /\ iteration' = iteration + 1
    /\ \E current_price \in FeedPrices \cup {None} :
       \E outcome \in IF current_price # None /\ iteration' % broadcast_every = 0
                      THEN {"sent", "dead", "failed"} ELSE {"none"} :
          manager' = IF outcome = "none"
                     THEN manager
                     ELSE broadcast_update(manager, current_price, outcome)
    /\ UNCHANGED << bots, files, api, connections >>
    /\ UNCHANGED << pc, running, position, strategy, price_history, file, now,
                    require_ai_confirmation, ai_enabled, runs, boot, tick, summary, elapsed >>

ApiNext ==
    \/ ClientConnects
    \/ ClientDisconnects
    \/ BroadcastPriceUpdates
    \/ BotBroadcasts

ApiSpec == ApiInit /\ [][ApiNext]_vars

----------------------------------------------------------------------------
(* The volatility monitor on its own: check_price_alerts called with any price *)
(* after any pause, the way test_price_alerts.py drives it with samples of     *)
(* chosen ages.  price_history and now are its state, tick the last call.      *)

\* Calls and pauses of the monitor.
MaxSamples == 4

\* Seconds between two looks at the price: a short pause, and one of exactly
\* the tracking window.
Delays == {100, price_tracking_window}

MonitorInit ==
    /\ pc = "monitor"
    /\ running = FALSE
    /\ position = "USDT"
    /\ strategy = new_strategy
    /\ price_history = << >>
    /\ file = NoFile
    /\ iteration = 0
    /\ now = 0
    /\ require_ai_confirmation = FALSE
    /\ ai_enabled = FALSE
    /\ runs = 0
    /\ boot = NoBoot
    /\ tick = NoTick
    /\ summary = 0
    /\ elapsed = 0
    /\ bots = NoBots
    /\ files = NoFiles
    /\ manager = NoManager
    /\ api = NoApi
    /\ connections = NoConnections

\* bot.check_price_alerts(current_price), some time after the last look.
CheckPriceAlerts ==
    /\ iteration < MaxSamples
    /\ iteration' = iteration + 1
    /\ \E delay \in Delays, current_price \in Prices :
          LET history == check_price_alerts(price_history, now + delay, current_price)
              alert == price_alert(history, current_price)
          IN  /\ now' = now + delay
              /\ price_history' = history
              /\ tick' = [NoTick EXCEPT
                             !.price = current_price,
                             !.alert = alert,
                             !.direction = IF alert
                                 THEN alert_direction(history, current_price)
                                 ELSE "NONE"]
    /\ UNCHANGED << pc, running, position, strategy, file, require_ai_confirmation,
                    ai_enabled, runs, boot, summary, elapsed >>
    /\ UNCHANGED << bots, files, manager, api, connections >>

\* An iteration without a price: time passes and the monitor is not called.
NoSample ==
    /\ iteration < MaxSamples
    /\ iteration' = iteration + 1
    /\ \E delay \in Delays : now' = now + delay
    /\ tick' = NoTick
    /\ UNCHANGED << pc, running, position, strategy, price_history, file,
                    require_ai_confirmation, ai_enabled, runs, boot, summary, elapsed >>
    /\ UNCHANGED << bots, files, manager, api, connections >>

MonitorNext ==
    \/ CheckPriceAlerts
    \/ NoSample

MonitorSpec == MonitorInit /\ [][MonitorNext]_vars

----------------------------------------------------------------------------
(* The API's control of the bot: start_bot and stop_bot, served by the event   *)
(* loop, and the threads they start, each running one TradingBot.  api is its   *)
(* state; a thread is "started", "entered" (run_bot has set bot_running),       *)
(* "idle" (in the loop, between iterations), "tick" (in an iteration) or        *)
(* "returned".                                                                  *)

ControlInit ==
    /\ pc = "control"
    /\ running = FALSE
    /\ position = "USDT"
    /\ strategy = new_strategy
    /\ price_history = << >>
    /\ file = NoFile
    /\ iteration = 0
    /\ now = 0
    /\ require_ai_confirmation = FALSE
    /\ ai_enabled = FALSE
    /\ runs = 0
    /\ boot = NoBoot
    /\ tick = NoTick
    /\ summary = 0
    /\ elapsed = 0
    /\ bots = NoBots
    /\ files = NoFiles
    /\ manager = NoManager
    /\ api = NoApi
    /\ connections = NoConnections

\* POST /api/bot/start: rejected while bot_running is set; otherwise a bot is
\* created, assigned to trading_bot, and a thread started for it.
StartBotRequest ==
    /\ IF api.bot_running
       THEN api' = [api EXCEPT !.response = "400"]
       ELSE /\ api.trading_bot < MaxBots
            /\ api' = [api EXCEPT !.trading_bot = @ + 1,
                                  !.threads[api.trading_bot + 1] =
                                      [pc |-> "started", running |-> FALSE],
                                  !.response = "started"]
    /\ UNCHANGED << bots, files, manager, connections >>
    /\ UNCHANGED bot_vars

\* run_bot, its first statement in the new thread: bot_running is set.
ThreadBegins ==
    /\ \E id \in 1..MaxBots :
          /\ api.threads[id].pc = "started"
          /\ api' = [api EXCEPT !.bot_running = TRUE, !.threads[id].pc = "entered"]
    /\ UNCHANGED << bots, files, manager, connections >>
    /\ UNCHANGED bot_vars

\* run_bot calls trading_bot.run(), which sets running and begins the loop.
ThreadEntersRun ==
    /\ \E id \in 1..MaxBots :
          /\ api.threads[id].pc = "entered"
          /\ api' = [api EXCEPT !.threads[id].pc = "idle",
                                !.threads[id].running = TRUE]
    /\ UNCHANGED << bots, files, manager, connections >>
    /\ UNCHANGED bot_vars

\* The loop test finds running set: an iteration begins.
ThreadTickBegins ==
    /\ \E id \in 1..MaxBots :
          /\ api.threads[id].pc = "idle"
          /\ api.threads[id].running
          /\ api' = [api EXCEPT !.threads[id].pc = "tick"]
    /\ UNCHANGED << bots, files, manager, connections >>
    /\ UNCHANGED bot_vars

\* The iteration ends with its sleep.
ThreadTickEnds ==
    /\ \E id \in 1..MaxBots :
          /\ api.threads[id].pc = "tick"
          /\ api' = [api EXCEPT !.threads[id].pc = "idle"]
    /\ UNCHANGED << bots, files, manager, connections >>
    /\ UNCHANGED bot_vars

\* The loop test finds running cleared: run() returns and run_bot's finally
\* clause clears bot_running.
ThreadReturns ==
    /\ \E id \in 1..MaxBots :
          /\ api.threads[id].pc = "idle"
          /\ ~api.threads[id].running
          /\ api' = [api EXCEPT !.threads[id].pc = "returned", !.bot_running = FALSE]
    /\ UNCHANGED << bots, files, manager, connections >>
    /\ UNCHANGED bot_vars

\* POST /api/bot/stop: rejected while bot_running is clear; otherwise
\* trading_bot.stop() runs in the event loop's thread and bot_running is
\* cleared, unless stop() raised after clearing the bot's running (answer 500).
StopBotRequest ==
    /\ IF ~api.bot_running
       THEN api' = [api EXCEPT !.response = "400"]
       ELSE \E stop_balance \in BalanceQueries :
               IF stop_raises(stop_balance)
               THEN api' = [api EXCEPT !.threads[api.trading_bot].running = FALSE,
                                      !.response = "500"]
               ELSE api' = [api EXCEPT !.threads[api.trading_bot].running = FALSE,
                                      !.bot_running = FALSE,
                                      !.response = "stopped"]
    /\ UNCHANGED << bots, files, manager, connections >>
    /\ UNCHANGED bot_vars

ControlNext ==
    \/ StartBotRequest
    \/ ThreadBegins
    \/ ThreadEntersRun
    \/ ThreadTickBegins
    \/ ThreadTickEnds
    \/ ThreadReturns
    \/ StopBotRequest

ControlSpec == ControlInit /\ [][ControlNext]_vars

----------------------------------------------------------------------------
(* The ConnectionManager's connections.  Its callers on the API's event loop   *)
(* run one at a time and give way only at an await; the bot's thread calls     *)
(* manager.broadcast through asyncio.run and runs beside them, statement by    *)
(* statement.                                                                  *)

ConnInit ==
    /\ pc = "connections"
    /\ running = FALSE
    /\ position = "USDT"
    /\ strategy = new_strategy
    /\ price_history = << >>
    /\ file = NoFile
    /\ iteration = 0
    /\ now = 0
    /\ require_ai_confirmation = FALSE
    /\ ai_enabled = FALSE
    /\ runs = 0
    /\ boot = NoBoot
    /\ tick = NoTick
    /\ summary = 0
    /\ elapsed = 0
    /\ bots = NoBots
    /\ files = NoFiles
    /\ manager = NoManager
    /\ api = NoApi
    /\ connections = NoConnections

\* The event loop's running place after a step of caller t that leaves it to
\* owner (the bot's thread never holds it).
slot_after(t, owner) == IF t = "loop" THEN owner ELSE connections.slot

\* Caller t may take a step: the bot's thread always, the loop's coroutine when
\* it is running or nobody is.
MayRun(t) == t = "bot" \/ connections.slot \in {Free, LoopTask}

\* connect: websocket.accept() has returned and the connection is appended.
ConnectAppends(ws) ==
    /\ connections.endpoint[ws] = "new"
    /\ connections.slot = Free
    /\ connections' = [connections EXCEPT
                          !.active_connections = Append(@, ws),
                          !.endpoint[ws] = "appended",
                          !.slot = Endpoint(ws)]
    /\ UNCHANGED bot_vars
    /\ UNCHANGED << bots, files, manager, api >>

\* connect: the connection's info is stored; the endpoint goes on to await.
ConnectTracks(ws) ==
    /\ connections.endpoint[ws] = "appended"
    /\ connections' = [connections EXCEPT
                          !.connection_info = @ \cup {ws},
                          !.endpoint[ws] = "open",
                          !.slot = Free]
    /\ UNCHANGED bot_vars
    /\ UNCHANGED << bots, files, manager, api >>

\* The endpoint's finally: disconnect(websocket) tests the list.
EndpointDisconnects(ws) ==
    /\ connections.endpoint[ws] = "open"
    /\ connections.slot = Free
    /\ IF ws \in Elements(connections.active_connections)
       THEN connections' = [connections EXCEPT !.endpoint[ws] = "d_remove",
                                               !.slot = Endpoint(ws)]
       ELSE connections' = [connections EXCEPT !.endpoint[ws] = "closed"]
    /\ UNCHANGED bot_vars
    /\ UNCHANGED << bots, files, manager, api >>

\* disconnect: active_connections.remove(websocket), a ValueError when another
\* caller removed it since the test.
EndpointRemoves(ws) ==
    /\ connections.endpoint[ws] = "d_remove"
    /\ IF ws \in Elements(connections.active_connections)
       THEN connections' = [connections EXCEPT
                               !.active_connections = list_remove(@, ws),
                               !.endpoint[ws] = "d_info"]
       ELSE connections' = [connections EXCEPT !.endpoint[ws] = "closed",
                                               !.slot = Free]
    /\ UNCHANGED bot_vars
    /\ UNCHANGED << bots, files, manager, api >>

\* disconnect: the test of connection_info and the del.
EndpointForgets(ws) ==
    /\ connections.endpoint[ws] = "d_info"
    /\ connections' = [connections EXCEPT
                          !.connection_info = @ \ {ws},
                          !.endpoint[ws] = "closed",
                          !.slot = Free]
    /\ UNCHANGED bot_vars
    /\ UNCHANGED << bots, files, manager, api >>

\* broadcast or a pass of send_heartbeat begins: nothing to do without
\* connections, otherwise the iteration over active_connections starts.
CallBegins(t, kind) ==
    /\ connections.task[t].pc = "idle"
    /\ t = "loop" => connections.slot = Free
    /\ t = "bot" => kind = "broadcast"
    /\ IF connections.active_connections = << >>
       THEN connections' = [connections EXCEPT
                               !.task[t] = [NoTask EXCEPT !.kind = kind,
                                                          !.ended = "returned"]]
       ELSE connections' = [connections EXCEPT
                               !.task[t] = [NoTask EXCEPT !.pc = "iterate",
                                                          !.kind = kind, !.i = 1],
                               !.slot = slot_after(t, LoopTask)]
    /\ UNCHANGED bot_vars
    /\ UNCHANGED << bots, files, manager, api >>

\* The for loop takes the next connection and starts the send (an await), or
\* is exhausted and goes on to the dead connections.
CallIterates(t) ==
    /\ connections.task[t].pc = "iterate"
    /\ MayRun(t)
    /\ IF connections.task[t].i <= Len(connections.active_connections)
       THEN connections' = [connections EXCEPT
                               !.task[t].current =
                                   connections.active_connections[connections.task[t].i],
                               !.task[t].i = @ + 1,
                               !.task[t].pc = "send",
                               !.slot = slot_after(t, Free)]
       ELSE connections' = [connections EXCEPT
                               !.task[t].pc = "cleanup",
                               !.slot = slot_after(t, LoopTask)]
    /\ UNCHANGED bot_vars
    /\ UNCHANGED << bots, files, manager, api >>

\* The send returns, or raises and the connection joins dead_connections.
CallSends(t, ok) ==
    /\ connections.task[t].pc = "send"
    /\ t = "loop" => connections.slot = Free
    /\ connections' = [connections EXCEPT
                          !.task[t].pc = "iterate",
                          !.task[t].dead =
                              IF ok THEN @ ELSE Append(@, connections.task[t].current),
                          !.task[t].failed =
                              IF ok THEN @ ELSE @ \cup {connections.task[t].current},
                          !.slot = slot_after(t, LoopTask)]
    /\ UNCHANGED bot_vars
    /\ UNCHANGED << bots, files, manager, api >>

\* The clean-up loop: the call returns when no dead connection is left,
\* otherwise disconnect(connection) tests the list.
CallCleansUp(t) ==
    /\ connections.task[t].pc = "cleanup"
    /\ MayRun(t)
    /\ IF connections.task[t].dead = << >>
       THEN connections' = [connections EXCEPT
                               !.task[t].pc = "idle",
                               !.task[t].ended = "returned",
                               !.slot = slot_after(t, Free)]
       ELSE connections' = [connections EXCEPT
                               !.task[t].target = Head(connections.task[t].dead),
                               !.task[t].dead = Tail(@),
                               !.task[t].pc =
                                   IF Head(connections.task[t].dead)
                                         \in Elements(connections.active_connections)
                                   THEN "d_remove" ELSE "cleanup",
                               !.slot = slot_after(t, LoopTask)]
    /\ UNCHANGED bot_vars
    /\ UNCHANGED << bots, files, manager, api >>

\* disconnect within the call: active_connections.remove(connection); its
\* ValueError ends the call.
CallRemoves(t) ==
    /\ connections.task[t].pc = "d_remove"
    /\ MayRun(t)
    /\ IF connections.task[t].target \in Elements(connections.active_connections)
       THEN connections' = [connections EXCEPT
                               !.active_connections =
                                   list_remove(@, connections.task[t].target),
                               !.task[t].pc = "d_info"]
       ELSE connections' = [connections EXCEPT
                               !.task[t].pc = "idle",
                               !.task[t].ended = "raised",
                               !.slot = slot_after(t, Free)]
    /\ UNCHANGED bot_vars
    /\ UNCHANGED << bots, files, manager, api >>

\* disconnect within the call: the info is deleted when there is one.
CallForgets(t) ==
    /\ connections.task[t].pc = "d_info"
    /\ MayRun(t)
    /\ connections' = [connections EXCEPT
                          !.connection_info = @ \ {connections.task[t].target},
                          !.task[t].pc = "cleanup"]
    /\ UNCHANGED bot_vars
    /\ UNCHANGED << bots, files, manager, api >>

ConnNext ==
    \/ \E ws \in Sockets : ConnectAppends(ws)
    \/ \E ws \in Sockets : ConnectTracks(ws)
    \/ \E ws \in Sockets : EndpointDisconnects(ws)
    \/ \E ws \in Sockets : EndpointRemoves(ws)
    \/ \E ws \in Sockets : EndpointForgets(ws)
    \/ \E t \in Callers, kind \in {"broadcast", "heartbeat"} : CallBegins(t, kind)
    \/ \E t \in Callers : CallIterates(t)
    \/ \E t \in Callers, ok \in BOOLEAN : CallSends(t, ok)
    \/ \E t \in Callers : CallCleansUp(t)
    \/ \E t \in Callers : CallRemoves(t)
    \/ \E t \in Callers : CallForgets(t)

ConnSpec == ConnInit /\ [][ConnNext]_vars

----------------------------------------------------------------------------
(* Properties *)

\* The state file holds exactly the bot's position and reference prices.
Persisted ==
    file = [ position        |-> position,
             last_buy_price  |-> strategy.last_buy_price,
             last_sell_price |-> strategy.last_sell_price ]

\* run() has ended, by returning or with an exception.
Ended == pc \in {"returned", "raised"}

\* C1: in every iteration that obtained a price, check_stop_loss is evaluated
\* before analyze; when it returns true, analyze is not called, neither the
\* advisor nor the confirmation parser is consulted about the trade, and a
\* market SELL is attempted in that iteration (unless an interrupt ended it).
C1_StopLossSellsFirst ==
    tick.price # None =>
        /\ tick.sl_checked
        /\ (tick.stop_loss /\ ~tick.aborted) =>
              /\ ~tick.analyzed
              /\ ~tick.advised
              /\ ~tick.gated
              /\ \/ tick.order = "SELL"
                 \/ pc = "exec" /\ tick.execute /\ tick.signal = "SELL"

\* C2: with confirmation required, an order that analyze signalled is placed
\* only if the advisor's answer of that iteration is approved; an iteration
\* whose answer is blocked or missing places no order, changes no state and
\* leaves nothing pending for the next iteration.
C2_GateDecidesExecution ==
    [][ /\ (require_ai_confirmation /\ tick'.order # "NONE" /\ ~tick'.stop_loss)
            => (tick'.advised /\ tick'.advice # NoText /\ parse_ai_confirmation(tick'.advice))
        /\ ( /\ iteration' = iteration + 1
             /\ require_ai_confirmation
             /\ tick'.advised
             /\ ~(tick'.advice # NoText /\ parse_ai_confirmation(tick'.advice)) )
            => /\ pc' = "idle"
               /\ ~tick'.execute
               /\ tick'.order = "NONE"
               /\ UNCHANGED << position, strategy, file, running, summary >>
      ]_vars

\* C2 witness: a SELL signal blocked by a tie of positive and negative keywords.
C2_Witness ==
    /\ require_ai_confirmation
    /\ tick.signal = "SELL"
    /\ tick.advised
    /\ tick.advice = t_tie
    /\ tick.order = "NONE"
    /\ pc = "idle"

\* C3: when execute_trade succeeds (a BUY, a SELL or the stop-loss SELL), the
\* position has flipped, record_buy or record_sell has been applied with the
\* iteration's price, and the state file equals the values in memory.
C3_SuccessfulTradeIsRecordedAndPersisted ==
    [][ (pc = "exec" /\ tick'.order_ok) =>
            /\ position' # position
            /\ position' = (IF tick'.order = "BUY" THEN "BTC" ELSE "USDT")
            /\ strategy'.total_trades = strategy.total_trades + 1
            /\ tick'.order = "BUY" =>
                  /\ strategy'.last_buy_price = tick.price
                  /\ strategy'.last_sell_price = strategy.last_sell_price
            /\ tick'.order = "SELL" =>
                  /\ strategy'.last_sell_price = tick.price
                  /\ strategy'.last_buy_price = strategy.last_buy_price
                  /\ strategy'.wins + strategy'.losses = strategy.wins + strategy.losses + 1
            /\ file' = [ position        |-> position',
                         last_buy_price  |-> strategy'.last_buy_price,
                         last_sell_price |-> strategy'.last_sell_price ]
      ]_vars

\* C3 witness: an emergency stop-loss SELL that succeeded.
C3_Witness ==
    /\ tick.stop_loss
    /\ tick.order = "SELL"
    /\ tick.order_ok
    /\ position = "USDT"

\* C4: when the exchange returns None for the order, execute_trade returns
\* False and position, reference prices, statistics, trade amount and the
\* state file are as before the call.
C4_FailedOrderChangesNothing ==
    [][ (pc = "exec" /\ tick'.order # "NONE" /\ ~tick'.filled) =>
            /\ ~tick'.order_ok
            /\ UNCHANGED << position, strategy, file >>
      ]_vars

\* C4 witness: a BUY whose order the exchange did not return.
C4_Witness ==
    /\ tick.order = "BUY"
    /\ ~tick.filled
    /\ ~tick.order_ok
    /\ pc = "idle"

\* C5: an iteration in which the exchange returns no price places no order and
\* leaves position, strategy, price history and state file unchanged; the bot
\* stays running and the loop goes on to its next iteration.
C5_NoPriceSkipsTheTick ==
    [][ (iteration' = iteration + 1 /\ tick'.price = None) =>
            /\ tick'.order = "NONE"
            /\ ~tick'.sl_checked
            /\ ~tick'.analyzed
            /\ UNCHANGED << position, strategy, price_history, file, summary >>
            /\ running'
            /\ pc' = "idle"
      ]_vars

\* C5 witness: a skipped iteration of a bot that holds the base asset.
C5_Witness ==
    /\ iteration > 0
    /\ tick.price = None
    /\ position = "BTC"
    /\ Len(price_history) > 0
    /\ pc = "idle"
    /\ running

\* C6: after a construction whose balance query succeeded, the position is
\* base-held iff the live base balance exceeds the dust threshold.
C6_BalanceDecidesPosition ==
    (pc = "ready" /\ boot.balance # NoBalance) =>
        (position = "BTC" <=> boot.balance.BTC > dust_threshold)

\* C6 witness: a file saying USDT overridden by a base balance above the dust.
C6_Witness ==
    /\ pc = "ready"
    /\ boot.saved # NoFile
    /\ boot.saved.position = "USDT"
    /\ boot.balance # NoBalance
    /\ boot.balance.BTC > dust_threshold
    /\ position = "BTC"

\* No usable buy price was persisted: no file, null or 0.
NoUsableBuyPrice(saved) ==
    saved = NoFile \/ saved.last_buy_price = None \/ saved.last_buy_price = 0

\* The price the exchange returned during the construction, None if none.
BootQuote == IF boot.quote1 # None THEN boot.quote1 ELSE boot.quote2

\* C7: after construction, a base-held bot with no usable persisted buy price
\* and an available current price has that price as last_buy_price, and the
\* state file already holds it.
C7_MissingBuyPriceIsEstimated ==
    (pc = "ready" /\ position = "BTC" /\ NoUsableBuyPrice(boot.saved) /\ BootQuote # None) =>
        /\ strategy.last_buy_price = BootQuote
        /\ file # NoFile
        /\ file.last_buy_price = BootQuote

\* C7 witness: the estimate made after the balance check overrode the position.
C7_Witness ==
    /\ pc = "ready"
    /\ position = "BTC"
    /\ boot.saved # NoFile
    /\ boot.saved.position = "USDT"
    /\ strategy.last_buy_price \in Prices
    /\ file.last_buy_price = strategy.last_buy_price

\* C8: a bot constructed from a saved file, with a live balance that agrees
\* with the saved position, has the saved position, last_buy_price and
\* last_sell_price; a price saved as null is unset (None), not a number.
C8_RestoreRoundTrip ==
    ( /\ pc = "ready"
      /\ boot.saved # NoFile
      /\ boot.balance # NoBalance
      /\ (boot.saved.position = "BTC" <=> boot.balance.BTC > dust_threshold) )
    => /\ position = boot.saved.position
       /\ strategy.last_buy_price = boot.saved.last_buy_price
       /\ strategy.last_sell_price = boot.saved.last_sell_price

\* C9: however run() ends, the bot is stopped, the state file holds the current
\* state and a closing summary has been sent to the advisor.
C9_EveryExitCleansUp ==
    Ended => (~running /\ Persisted /\ summary >= 1)

\* C10: run() never ends with an exception.
C10_NoExceptionLeavesRun ==
    pc # "raised"

\* C11: with confirmation required and the advisor unavailable (disabled, so
\* that it answers the offline sentinel, or answering None), no signal that
\* analyze returned is executed: the iteration places no order, and over every
\* sequence of iterations of a disabled advisor the position changes only by
\* the stop-loss SELL, which does not go through the advisor.
C11_UnavailableAdvisorBlocksEverySignal ==
    [][ (require_ai_confirmation /\ (~ai_enabled \/ tick'.advice = NoText)) =>
            /\ tick'.analyzed => (~tick'.execute /\ tick'.order = "NONE")
            /\ (pc = "exec" /\ position' # position) => tick'.stop_loss
      ]_vars

\* C11 witness: in a later iteration of a disabled advisor, a BUY signal was
\* answered by the offline sentinel and not executed.
C11_Witness ==
    /\ require_ai_confirmation
    /\ ~ai_enabled
    /\ iteration >= 2
    /\ tick.signal = "BUY"
    /\ tick.advised
    /\ tick.advice = t_offline
    /\ tick.order = "NONE"
    /\ pc = "idle"

\* C12: analyze called quote-held on a strategy whose last sell price is S, with
\* any price p and buy threshold t, returns BUY iff (S - p) / S * 100 >= t, and
\* HOLD otherwise.
C12_BuyIffDropReachesThreshold ==
    [][ (tick'.op = "analyze" /\ position' = "USDT" /\ strategy.last_sell_price # None) =>
            /\ tick'.signal \in {"BUY", "HOLD"}
            /\ tick'.signal = "BUY" <=>
                  (strategy.last_sell_price - tick'.price) * 100
                      >= strategy.buy_threshold * strategy.last_sell_price
      ]_vars

\* C12 witness: a drop of exactly the threshold (100 to 98 at 2%) returned BUY.
C12_Witness ==
    /\ tick.op = "analyze"
    /\ position = "USDT"
    /\ strategy.buy_threshold = 2
    /\ strategy.last_sell_price = 100
    /\ tick.price = 98
    /\ tick.signal = "BUY"

\* No sell price has been recorded yet: the strategy has none, or the state file
\* the bot was restored from holds null for it.
NoSellPriceYet ==
    \/ strategy.last_sell_price = None
    \/ file # NoFile /\ file.last_sell_price = None

\* C13: whenever the position is quote-held and no sell price has been recorded
\* yet (on a fresh strategy, or on a bot restored from a state file whose
\* last_sell_price is null), analyze returns BUY, whatever the price.
C13_BootstrapEntry ==
    [][ ( /\ iteration' = iteration + 1
          /\ tick'.analyzed
          /\ position = "USDT"
          /\ NoSellPriceYet )
        => tick'.signal = "BUY"
      ]_vars

\* The trailing stop triggers on the call just made: enabled, and the drawdown
\* of the call's price from the highest price seen since the buy is at least
\* the trailing-stop percentage.
TrailingStopApplies ==
    /\ strategy'.use_trailing_stop
    /\ strategy'.highest_price_since_buy # None
    /\ (strategy'.highest_price_since_buy - tick'.price) * 100
           >= strategy'.trailing_stop_percentage * strategy'.highest_price_since_buy

\* C14: analyze called base-held on a strategy whose last buy price is B, when
\* no trailing stop triggers, returns SELL iff (p - B) / B * 100 >= the sell
\* threshold, and HOLD otherwise.
C14_SellIffRiseReachesThreshold ==
    [][ ( /\ tick'.op = "analyze"
          /\ position' = "BTC"
          /\ strategy.last_buy_price # None
          /\ ~TrailingStopApplies )
        => /\ tick'.signal \in {"SELL", "HOLD"}
           /\ tick'.signal = "SELL" <=>
                 (tick'.price - strategy.last_buy_price) * 100
                     >= strategy.sell_threshold * strategy.last_buy_price
      ]_vars

\* C14 witness: a rise of exactly the threshold (100 to 102 at 2%) returned SELL
\* with the trailing stop enabled and not triggered.
C14_Witness ==
    /\ tick.op = "analyze"
    /\ position = "BTC"
    /\ strategy.use_trailing_stop
    /\ strategy.sell_threshold = 2
    /\ strategy.last_buy_price = 100
    /\ tick.price = 102
    /\ tick.signal = "SELL"

C16_StopLossIffLossReachesThreshold ==
    [][ tick'.op = "check_stop_loss" =>
            /\ tick'.triggered <=>
                  /\ position' = "BTC"
                  /\ strategy.last_buy_price # None
                  /\ (strategy.last_buy_price - tick'.price) * 100
                         >= stop_loss_percentage * strategy.last_buy_price
            /\ position' = "USDT" => ~tick'.triggered
      ]_vars

\* C16 witness: a loss of exactly 3% (100 to 97) triggered the stop-loss.
C16_Witness ==
    /\ tick.op = "check_stop_loss"
    /\ position = "BTC"
    /\ strategy.last_buy_price = 100
    /\ tick.price = 97
    /\ tick.triggered

C18_TradeAmountWithinLimits ==
    /\ min_position_size <= strategy.trade_amount
    /\ strategy.trade_amount <= max_position_size

\* C18 witness: adjust_position_size called on a winning streak with the trade
\* amount at its maximum, and on a losing streak at its minimum.
C18_Witness ==
    /\ tick.op = "adjust_position_size"
    /\ tick.balance.USDT > 0
    /\ \/ /\ strategy.consecutive_wins >= streak_length
          /\ strategy.trade_amount = max_position_size
          /\ strategy.total_trades = MaxTrades
       \/ /\ strategy.consecutive_losses >= streak_length
          /\ strategy.trade_amount = min_position_size

\* C19: adjust_position_size changes trade_amount by at most one step per call:
\* upward only when consecutive_wins >= 3, downward only when
\* consecutive_losses >= 3, and not at all when both streaks are below 3.
C19_OneStepPerStreak ==
    [][ tick'.op = "adjust_position_size" =>
            /\ strategy'.trade_amount - strategy.trade_amount
                  \in {-position_size_step, 0, position_size_step}
            /\ strategy'.trade_amount > strategy.trade_amount =>
                  strategy.consecutive_wins >= 3
            /\ strategy'.trade_amount < strategy.trade_amount =>
                  strategy.consecutive_losses >= 3
            /\ (strategy.consecutive_wins < 3 /\ strategy.consecutive_losses < 3) =>
                  strategy'.trade_amount = strategy.trade_amount
      ]_vars

\* C19 witness: after three losses in a row the trade amount went one step down.
C19_Witness ==
    /\ tick.op = "adjust_position_size"
    /\ strategy.consecutive_losses = 3
    /\ strategy.trade_amount = TRADE_AMOUNT - position_size_step

C21_UnattributedSell ==
    [][ (tick'.op = "record_sell" /\ strategy.last_buy_price = None) =>
            /\ strategy'.last_sell_price = tick'.price
            /\ strategy'.total_trades = strategy.total_trades + 1
            /\ strategy'.wins = strategy.wins
            /\ strategy'.losses = strategy.losses
            /\ strategy'.consecutive_wins = strategy.consecutive_wins
            /\ strategy'.consecutive_losses = strategy.consecutive_losses
            /\ strategy'.last_buy_price = None
      ]_vars

\* C21 witness: two sells recorded on a strategy that never bought.
C21_Witness ==
    /\ tick.op = "record_sell"
    /\ strategy.last_buy_price = None
    /\ strategy.last_sell_price = tick.price
    /\ strategy.total_trades = 2
    /\ strategy.wins = 0
    /\ strategy.losses = 0

KeywordsIn(keywords, text) ==
    {k \in 1..Len(keywords) : Contains(lower(text), keywords[k])}

\* C23: _parse_ai_confirmation(text) returns true iff the lower-cased text
\* contains more positive than negative keywords and at least one positive
\* keyword; a tie, no match, the empty text and None all return false.
C23_ApprovedIffPositiveKeywordsPrevail ==
    tick.op = "parse_ai_confirmation" =>
        /\ tick.text \in {NoText, t_empty} => ~tick.approved
        /\ tick.text \notin {NoText, t_empty} =>
              /\ tick.approved <=>
                    /\ Cardinality(KeywordsIn(positive_keywords, tick.text))
                          > Cardinality(KeywordsIn(negative_keywords, tick.text))
                    /\ Cardinality(KeywordsIn(positive_keywords, tick.text)) >= 1
              /\ Cardinality(KeywordsIn(positive_keywords, tick.text))
                    = Cardinality(KeywordsIn(negative_keywords, tick.text)) => ~tick.approved

\* C23 witness: "I know, go ahead" holds one positive keyword ("go ahead") and
\* one negative ("no", inside "know"): a tie, rejected.
C23_Witness ==
    /\ tick.op = "parse_ai_confirmation"
    /\ tick.text = t_know
    /\ KeywordsIn(positive_keywords, tick.text) = {3}
    /\ KeywordsIn(negative_keywords, tick.text) = {1}
    /\ ~tick.approved

\* C24: a bot that holds the base asset without a usable buy price (None, or
\* the 0.0 a restart leaves when the price for the estimate was unavailable)
\* does not stop or crash because of it: every iteration that obtains a price
\* yields HOLD and the loop goes on.
C24_NoBuyPriceMeansHold ==
    [][ ( /\ iteration' = iteration + 1
          /\ tick'.price # None
          /\ position = "BTC"
          /\ ~Truthy(strategy.last_buy_price) )
        => /\ tick'.analyzed
           /\ tick'.signal = "HOLD"
           /\ ~tick'.crashed
           /\ running'
           /\ pc' = "idle"
      ]_vars

\* C25: analyze, record_buy, record_sell and check_stop_loss return normally
\* for every price, position and reference price the bot reaches (None, 0 or
\* positive): no iteration ends in a division by a missing or zero price.
C25_StrategyNeverRaises ==
    /\ tick.signal # "RAISE"
    /\ ~(tick.order = "SELL" /\ tick.filled /\ tick.crashed)

\* C26: a stop requested from another thread while an iteration is in flight
\* takes effect after it: once stop() has run (running is cleared and the
\* state persisted), the loop places no order and changes neither position
\* nor strategy nor state file before run() returns.
C26_NoTradeAfterStop ==
    [][ (pc \in {"idle", "exec"} /\ ~running) =>
            /\ tick'.order = tick.order
            /\ UNCHANGED << position, strategy, file >>
      ]_vars

\* C28: an iteration in which get_balance returns None changes no state and
\* leaves the bot running, so that the next iteration proceeds.
C28_FailedBalanceIsTransient ==
    [][ (iteration' = iteration + 1 /\ tick'.balance_failed) =>
            /\ running'
            /\ pc' \in {"idle", "exec"}
            /\ UNCHANGED << position, strategy, file, summary >>
      ]_vars

C27_EachSymbolOwnsItsStateFile ==
    [][ \A symbol \in SymbolSet :
           /\ bots'[symbol].read \in {"none", symbol}
           /\ \A name \in StateFiles :
                 (files'[name] # files[name] /\ files'[name].writer = symbol)
                     => files[name].writer \in {"none", symbol}
      ]_vars

\* C30: every price_update delivered to the clients, whichever path sent it,
\* carries a price at least 0.1% away from the price of the price_update
\* delivered before it.
C30_PriceUpdatesAreRateLimited ==
    [][ (manager'.flip # manager.flip /\ manager.sent # None) =>
            Abs(manager'.sent - manager.sent) * 1000
                >= price_filter_per_mille * manager.sent
      ]_vars

\* C31: within a run a BUY order is placed only while the bot holds USDT and a
\* SELL order only while it holds BTC; an order that succeeds flips the
\* position, and nothing else in the run changes it.  Successful trades
\* therefore alternate and at most one lot is open.
C31_OrdersFollowThePosition ==
    [][ /\ (pc = "exec" /\ pc' # "exec" /\ tick'.order # "NONE") =>
              /\ tick'.order \in {"BUY", "SELL"}
              /\ tick'.order = "BUY"  => position = "USDT"
              /\ tick'.order = "SELL" => position = "BTC"
              /\ (tick'.order = "BUY" /\ tick'.order_ok)  => position' = "BTC"
              /\ (tick'.order = "SELL" /\ tick'.order_ok) => position' = "USDT"
              /\ ~tick'.order_ok => position' = position
        /\ (pc \in {"idle", "exec"} /\ position' # position) =>
              pc = "exec" /\ tick'.order_ok
      ]_vars

\* C31 witness: in the first process a SELL succeeded after the BUY that opened
\* the lot: two trades are on record.
C31_Witness ==
    /\ runs = 1
    /\ iteration >= 2
    /\ tick.order = "SELL"
    /\ tick.order_ok
    /\ position = "USDT"
    /\ strategy.total_trades = 2

C33_MonitorNeverAffectsTrading ==
    [][ (iteration' = iteration + 1 /\ tick'.price # None) =>
            /\ tick'.sl_checked
            /\ tick'.stop_loss = check_stop_loss(strategy, tick'.price, position)
            /\ tick'.analyzed = ~tick'.stop_loss
            /\ tick'.analyzed => tick'.signal = analyze(strategy, tick'.price, position)
            /\ (tick'.stop_loss /\ ~tick'.crashed) => tick'.signal = "SELL"
            /\ UNCHANGED << position, strategy >>
            /\ ~tick'.crashed => UNCHANGED << file, running >>
      ]_vars

\* C33 witness: an alert fired, the advisor was asked and answered nothing, and
\* the iteration went on to a BUY signal that is about to be executed.
C33_Witness ==
    /\ pc = "exec"
    /\ tick.alert
    /\ tick.vol_advised
    /\ tick.vol_advice = NoText
    /\ tick.analyzed
    /\ tick.signal = "BUY"
    /\ tick.execute

\* C34: after a call of check_price_alerts the history holds the samples in
\* arrival order, the current one last; every sample in it is less than the
\* tracking window (300 s) old; every earlier sample that young is still in it
\* and no other is.
C34_HistoryIsTheWindow ==
    [][ (iteration' = iteration + 1 /\ tick'.price # None) =>
            LET kept  == price_history'
                young == { i \in 1..Len(price_history) :
                              now' - price_history[i].t < price_tracking_window }
            IN  /\ Len(kept) = Cardinality(young) + 1
                /\ kept[Len(kept)] = [t |-> now', price |-> tick'.price]
                /\ \A i \in 1..(Len(kept) - 1) : kept[i].t < kept[i + 1].t
                /\ \A i \in 1..Len(kept) : now' - kept[i].t < price_tracking_window
                /\ \A i \in young : \E j \in 1..Len(kept) : kept[j] = price_history[i]
      ]_vars

\* C34 witness: a call one window after the first look, whose sample (if any) is
\* gone: the history holds the current sample alone.
C34_Witness ==
    /\ pc = "monitor"
    /\ iteration = 2
    /\ now = 100 + price_tracking_window
    /\ tick.price # None
    /\ Len(price_history) = 1
    /\ price_history[1].t = now

\* The values a reference price can take: unset, 0.0, or a price.
ReferencePrices == {None, 0} \cup ScriptPrices

\* C35: the signal of an analyze call depends only on the active reference
\* price.  Called with position USDT it is the signal the call would give for
\* any other last_buy_price; called with position BTC it is the signal the call
\* would give for any other last_sell_price.
C35_SignalIgnoresTheInactiveReference ==
    [][ tick'.op = "analyze" =>
            \A other \in ReferencePrices :
               /\ position' = "USDT" =>
                     analyze_with_trailing_stop(
                         [strategy EXCEPT !.last_buy_price = other],
                         tick'.price, "USDT").signal = tick'.signal
               /\ position' = "BTC" =>
                     analyze_with_trailing_stop(
                         [strategy EXCEPT !.last_sell_price = other],
                         tick'.price, "BTC").signal = tick'.signal
      ]_vars

\* C35 witness: analyze(97, 'USDT') gave BUY for a drop of 3% from the sell
\* price 100 although the buy price on record, 97, is the current price.
C35_Witness ==
    /\ tick.op = "analyze"
    /\ position = "USDT"
    /\ tick.price = 97
    /\ strategy.last_sell_price = 100
    /\ strategy.last_buy_price = 97
    /\ tick.signal = "BUY"

\* C36: the advisor's availability is decided once, by the health probe of its
\* construction: enabled is then true iff the probe met status 200, and no
\* later step of the process changes it.  While it is false the advisor's
\* answer to a trade is the offline sentinel whatever the service would have
\* said, and the volatility question is not sent.
C36_AvailabilityDecidedAtConstruction ==
    [][ /\ pc' = "ready" => ai_enabled' = (boot'.probe = "ok")
        /\ pc' # "ready" => ai_enabled' = ai_enabled
        /\ (iteration' = iteration + 1 /\ ~ai_enabled) =>
              /\ tick'.advised => tick'.advice = t_offline
              /\ ~tick'.vol_advised
              /\ tick'.vol_advice = NoText
      ]_vars

\* C36 witness: the probe of the construction met a status other than 200 and
\* the disabled advisor, asked about a BUY, answered the offline sentinel.
C36_Witness ==
    /\ pc \in {"idle", "exec"}
    /\ ~ai_enabled
    /\ tick.advised
    /\ tick.signal = "BUY"
    /\ tick.advice = t_offline

\* C37: once stop_all has called a bot's stop(), the bot's loop starts no
\* further iteration, whenever the call came.
C37_NoTickAfterStopRequest ==
    [][ \A symbol \in SymbolSet :
           bots[symbol].stop_requested =>
               bots'[symbol].iteration = bots[symbol].iteration
      ]_vars

\* The bots whose loop is in an iteration.
Ticking(a) == { id \in 1..MaxBots : a.threads[id].pc = "tick" }

\* C38: through the API at most one bot is in an iteration of its loop at any
\* time, and a start request creates a bot only when no bot created before is
\* in its loop or about to enter it.
C38_AtMostOneLoop ==
    [][ /\ Cardinality(Ticking(api')) <= 1
        /\ api'.trading_bot # api.trading_bot =>
              \A id \in 1..MaxBots :
                 api.threads[id].pc \in {"none", "returned"}
      ]_vars

\* C39: the start-up reconciliation of a symbol's bot follows that symbol's own
\* base asset.  When the balance query of its construction succeeded, the bot
\* starts base-held iff the account holds more than dust of its own base
\* asset, whatever it holds of another symbol's.
C39_ReconciliationFollowsOwnAsset ==
    [][ \A symbol \in SymbolSet :
           ( /\ bots[symbol].pc = "off"
             /\ bots'[symbol].pc = "ready"
             /\ bots'[symbol].boot.balance # NoBalance ) =>
               ( bots'[symbol].position = "BTC"
                    <=> bots'[symbol].boot.account[base_currency(symbol)]
                            > dust_threshold )
      ]_vars

\* No caller is inside the ConnectionManager.
Quiescent ==
    /\ connections.slot = Free
    /\ \A ws \in Sockets : connections.endpoint[ws] \in {"new", "open", "closed"}
    /\ \A t \in Callers : connections.task[t].pc = "idle"

\* C40: once the connects, disconnects, broadcasts and heartbeats are over,
\* connection_info has an entry for exactly the connections in
\* active_connections, and no connection whose send failed in a broadcast
\* that returned is in active_connections.
C40_InfoMatchesActiveConnections ==
    Quiescent =>
        /\ connections.connection_info = Elements(connections.active_connections)
        /\ \A t \in Callers :
              connections.task[t].ended = "returned" =>
                 connections.task[t].failed
                    \cap Elements(connections.active_connections) = {}

====
